---------------------------- MODULE Spec2Model ----------------------------
(***************************************************************************)
(* Model of the ShippingManager CoPilot launcher's credential plumbing     *)
(* (helper/get_session_windows.py) and of its tray launcher (start.py).    *)
(*                                                                         *)
(* Text is a sequence of Unicode code points, bytes are a sequence of      *)
(* numbers 0..255.  A call that may fail yields Ok(value), None (Python's  *)
(* None) or Raise(kind) (an exception of that kind).                       *)
(***************************************************************************)
EXTENDS Integers, Sequences, FiniteSets, TLC

VARIABLES
    KEYRING_AVAILABLE,  \* module flag: `import keyring` succeeded
    machine,            \* platform.node(), os.getlogin(), platform.system()
    keyring,            \* OS credential store: set of <<account, password>>
    sessions_file,      \* sessions.json: user id -> session record
    call,               \* the last encrypt_cookie / save_session call
    ret,                \* the last decrypt_cookie call
    pc,                 \* position of the caller
    gcm,                \* the last decrypt_aes_gcm call
    scan,               \* the last get_steam_cookie call
    check,              \* the last validate_session_cookie call
    flow,               \* the login flow of main()
    launcher            \* start.py: the server start, the server handle, a backup

vars == <<KEYRING_AVAILABLE, machine, keyring, sessions_file, call, ret, pc,
          gcm, scan, check, flow, launcher>>

-----------------------------------------------------------------------------
(* Python values *)

None == [none |-> TRUE]

Ok(value) == [ok |-> value]

Raise(kind) == [raised |-> kind]

IsOk(v) == "ok" \in DOMAIN v

IsRaise(v) == "raised" \in DOMAIN v

Min(a, b) == IF a < b THEN a ELSE b

Max(a, b) == IF a > b THEN a ELSE b

\* s[n:]
From(s, n) == SubSeq(s, Min(n, Len(s)) + 1, Len(s))

\* s[:n]
Upto(s, n) == SubSeq(s, 1, Min(n, Len(s)))

\* s[-n:]
Tail_n(s, n) == SubSeq(s, Max(Len(s) - n, 0) + 1, Len(s))

\* s[:-n]
DropTail(s, n) == SubSeq(s, 1, Max(Len(s) - n, 0))

\* s.startswith(p)
StartsWith(s, p) == Len(s) >= Len(p) /\ SubSeq(s, 1, Len(p)) = p

\* s.endswith(p)
EndsWith(s, p) == Len(s) >= Len(p) /\ Tail_n(s, Len(p)) = p

RECURSIVE ConcatRange(_, _, _)
ConcatRange(ss, lo, hi) ==
    IF lo > hi THEN <<>>
    ELSE IF lo = hi THEN ss[lo]
    ELSE LET mid == (lo + hi) \div 2
         IN  ConcatRange(ss, lo, mid) \o ConcatRange(ss, mid + 1, hi)

\* b''.join(ss)
Concat(ss) == ConcatRange(ss, 1, Len(ss))

\* the least element of a non-empty set of numbers
Least(S) == CHOOSE i \in S : \A j \in S : i <= j

RECURSIVE SeqsUpTo(_, _)
\* every sequence over S of length 0..n
SeqsUpTo(S, n) ==
    IF n = 0 THEN {<<>>}
    ELSE LET shorter == SeqsUpTo(S, n - 1)
         IN  shorter \cup {Append(s, c) : s \in {t \in shorter : Len(t) = n - 1}, c \in S}

-----------------------------------------------------------------------------
(* str.encode() and bytes.decode(): UTF-8 *)

IsSurrogate(c) == c >= 55296 /\ c <= 57343

Utf8EncodeChar(c) ==
    IF c < 128 THEN <<c>>
    ELSE IF c < 2048 THEN <<192 + (c \div 64), 128 + (c % 64)>>
    ELSE IF c < 65536 THEN <<224 + (c \div 4096), 128 + ((c \div 64) % 64), 128 + (c % 64)>>
    ELSE <<240 + (c \div 262144), 128 + ((c \div 4096) % 64),
           128 + ((c \div 64) % 64), 128 + (c % 64)>>

\* s.encode(): the bytes, or UnicodeEncodeError on a lone surrogate
Utf8Encode(s) ==
    IF \E i \in 1..Len(s) : IsSurrogate(s[i]) THEN Raise("UnicodeEncodeError")
    ELSE Ok(Concat([i \in 1..Len(s) |-> Utf8EncodeChar(s[i])]))

IsCont(b) == b >= 128 /\ b <= 191

\* The character that starts at byte i: its code point and length, or cp = -1
\* and the length of the maximal invalid part.
Utf8Next(b, i) ==
    LET b0 == b[i]
        has(k) == i + k <= Len(b)
        lo2 == IF b0 = 224 THEN 160 ELSE IF b0 = 240 THEN 144 ELSE 128
        hi2 == IF b0 = 237 THEN 159 ELSE IF b0 = 244 THEN 143 ELSE 191
        ok2 == has(1) /\ b[i + 1] >= lo2 /\ b[i + 1] <= hi2
        ok3 == has(2) /\ IsCont(b[i + 2])
        ok4 == has(3) /\ IsCont(b[i + 3])
    IN  IF b0 < 128 THEN [cp |-> b0, n |-> 1]
        ELSE IF b0 >= 194 /\ b0 <= 223 THEN
            IF ok2 THEN [cp |-> (b0 - 192) * 64 + (b[i + 1] - 128), n |-> 2]
            ELSE [cp |-> -1, n |-> 1]
        ELSE IF b0 >= 224 /\ b0 <= 239 THEN
            IF ~ok2 THEN [cp |-> -1, n |-> 1]
            ELSE IF ~ok3 THEN [cp |-> -1, n |-> 2]
            ELSE [cp |-> (b0 - 224) * 4096 + (b[i + 1] - 128) * 64 + (b[i + 2] - 128),
                  n |-> 3]
        ELSE IF b0 >= 240 /\ b0 <= 244 THEN
            IF ~ok2 THEN [cp |-> -1, n |-> 1]
            ELSE IF ~ok3 THEN [cp |-> -1, n |-> 2]
            ELSE IF ~ok4 THEN [cp |-> -1, n |-> 3]
            ELSE [cp |-> (b0 - 240) * 262144 + (b[i + 1] - 128) * 4096
                          + (b[i + 2] - 128) * 64 + (b[i + 3] - 128),
                  n |-> 4]
        ELSE [cp |-> -1, n |-> 1]

\* b.decode('utf-8'): the text, or UnicodeDecodeError.  The bytes are well
\* formed when every byte that is no continuation byte starts a character
\* that ends where the next such byte stands.
Utf8Decode(b) ==
    LET n == Len(b)
        leads == {i \in 1..n : ~IsCont(b[i])}
        nextLead(i) == LET L == {j \in leads : j > i}
                       IN  IF L = {} THEN n + 1 ELSE Least(L)
        wellFormed == /\ n = 0 \/ 1 \in leads
                      /\ \A i \in leads : /\ Utf8Next(b, i).cp # -1
                                          /\ i + Utf8Next(b, i).n = nextLead(i)
        kth(k) == CHOOSE i \in leads : Cardinality({j \in leads : j < i}) = k - 1
    IN  IF ~wellFormed THEN Raise("UnicodeDecodeError")
        ELSE Ok([k \in 1..Cardinality(leads) |-> Utf8Next(b, kth(k)).cp])

RECURSIVE Utf8DecodeReplaceFrom(_, _)
Utf8DecodeReplaceFrom(b, i) ==
    IF i > Len(b) THEN <<>>
    ELSE LET nx == Utf8Next(b, i)
         IN  <<(IF nx.cp = -1 THEN 65533 ELSE nx.cp)>>
                 \o Utf8DecodeReplaceFrom(b, i + nx.n)

\* b.decode('utf-8', errors='replace'): U+FFFD for every invalid part
Utf8DecodeReplace(b) == Utf8DecodeReplaceFrom(b, 1)

-----------------------------------------------------------------------------
(* b ^ k on bytes *)

RECURSIVE XorBits(_, _, _)
XorBits(a, b, n) ==
    IF n = 0 THEN 0
    ELSE (((a % 2) + (b % 2)) % 2) + 2 * XorBits(a \div 2, b \div 2, n - 1)

ByteXor(a, b) == XorBits(a, b, 8)

-----------------------------------------------------------------------------
(* base64.b64encode and base64.b64decode *)

B64Char(i) ==
    IF i < 26 THEN 65 + i
    ELSE IF i < 52 THEN 97 + (i - 26)
    ELSE IF i < 62 THEN 48 + (i - 52)
    ELSE IF i = 62 THEN 43 ELSE 47

\* the 6-bit value of a character, 64 for a character outside the alphabet
B64Value(c) ==
    IF c >= 65 /\ c <= 90 THEN c - 65
    ELSE IF c >= 97 /\ c <= 122 THEN c - 97 + 26
    ELSE IF c >= 48 /\ c <= 57 THEN c - 48 + 52
    ELSE IF c = 43 THEN 62
    ELSE IF c = 47 THEN 63 ELSE 64

IsB64Data(c) == B64Value(c) < 64

\* base64.b64encode(b): four characters for every three bytes, '=' padded
b64encode(b) ==
    LET n == Len(b)
        byte(i) == IF i <= n THEN b[i] ELSE 0
        char(k) ==
            LET g == (k - 1) \div 4
                r == (k - 1) % 4
                b1 == byte(3 * g + 1)
                b2 == byte(3 * g + 2)
                b3 == byte(3 * g + 3)
            IN  IF r = 0 THEN B64Char(b1 \div 4)
                ELSE IF r = 1 THEN B64Char((b1 % 4) * 16 + (b2 \div 16))
                ELSE IF r = 2 THEN
                    IF 3 * g + 2 > n THEN 61 ELSE B64Char((b2 % 16) * 4 + (b3 \div 64))
                ELSE IF 3 * g + 3 > n THEN 61 ELSE B64Char(b3 % 64)
    IN  [k \in 1..(4 * ((n + 2) \div 3)) |-> char(k)]

\* binascii.a2b_base64 in its default (non-strict) mode: characters outside
\* the alphabet are skipped; a '=' that completes the padding of a group of two
\* or three characters ends the input; input that ends inside a group is an
\* error.
a2b_base64(s) ==
    LET n == Len(s)
        dataBefore(i) == {j \in 1..(i - 1) : IsB64Data(s[j])}
        quad_pos(i) == Cardinality(dataBefore(i)) % 4
        lastData(i) == IF dataBefore(i) = {} THEN 0
                       ELSE CHOOSE j \in dataBefore(i) : \A k \in dataBefore(i) : k <= j
        pads(i) == Cardinality({j \in (lastData(i) + 1)..i : s[j] = 61})
        stops == {i \in 1..n : /\ s[i] = 61
                               /\ quad_pos(i) >= 2
                               /\ quad_pos(i) + pads(i) >= 4}
        end == IF stops = {} THEN n + 1 ELSE Least(stops)
        data == SelectSeq(SubSeq(s, 1, end - 1), IsB64Data)
        m == Len(data)
        v(k) == B64Value(data[k])
        byte(k) ==
            LET g == (k - 1) \div 3
                r == (k - 1) % 3
            IN  IF r = 0 THEN v(4 * g + 1) * 4 + (v(4 * g + 2) \div 16)
                ELSE IF r = 1 THEN (v(4 * g + 2) % 16) * 16 + (v(4 * g + 3) \div 4)
                ELSE (v(4 * g + 3) % 4) * 64 + v(4 * g + 4)
        nbytes == (m \div 4) * 3
                      + (IF m % 4 = 2 THEN 1 ELSE IF m % 4 = 3 THEN 2 ELSE 0)
    IN  IF stops = {} /\ m % 4 # 0 THEN Raise("binascii.Error")
        ELSE Ok([k \in 1..nbytes |-> byte(k)])

\* base64.b64decode(s) of a str: ValueError unless s is ASCII
b64decode(s) ==
    IF \E i \in 1..Len(s) : s[i] >= 128 THEN Raise("ValueError")
    ELSE a2b_base64(s)

-----------------------------------------------------------------------------
(* Bounds and input sets *)

\* longest token built from TokenChars
MaxTokenLen == 3

\* 'a' and U+00E9 (two bytes in UTF-8)
TokenChars == {97, 233}

\* 'abc123'
Token_abc123 == <<97, 98, 99, 49, 50, 51>>

\* 'v1:YQ==': a token that looks like a fallback blob
Token_v1 == <<118, 49, 58, 89, 81, 61, 61>>

\* 'KEYRING:session_1': a token that looks like a credential-store reference
Token_keyring == <<75, 69, 89, 82, 73, 78, 71, 58, 115, 101, 115, 115, 105, 111, 110, 95, 49>>

\* a 52-character token, longer than the 32-byte key
Token_long == <<101, 121, 74, 112, 100, 105, 73, 54, 73, 107, 69, 57, 73, 105, 119,
                105, 100, 109, 70, 115, 100, 87, 85, 105, 79, 105, 74, 67, 85, 84,
                48, 57, 73, 105, 119, 105, 98, 87, 70, 106, 73, 106, 111, 105, 90,
                106, 65, 105, 102, 81, 61, 61>>

\* session tokens: main() hands save_session a cookie only after `if not cookie`
\* sent the empty one away (lines 1517, 1334)
Tokens == (SeqsUpTo(TokenChars, MaxTokenLen) \ {<<>>})
              \cup {Token_abc123, Token_v1, Token_keyring, Token_long}

\* user ids '1' and '2'
UserIds == {<<49>>, <<50>>}

\* os.getlogin() raises OSError (no controlling terminal)
NoLogin == "<no login>"

Machines == {[node |-> "HOST", login |-> "bob", system |-> "Windows"],
             [node |-> "HOST", login |-> "alice", system |-> "Windows"],
             [node |-> "HOST", login |-> NoLogin, system |-> "Windows"]}

-----------------------------------------------------------------------------
(* ENCRYPTION HELPERS *)

\* 'KEYRING:'
KEYRING_PREFIX == <<75, 69, 89, 82, 73, 78, 71, 58>>

\* 'v1:'
V1_PREFIX == <<118, 49, 58>>

\* f"session_{user_id}"
account_name(user_id) == <<115, 101, 115, 115, 105, 111, 110, 95>> \o user_id

\* hashlib.sha256(machine_id.encode()).digest() of the machine ids of Machines
sha256(machine_id) ==
    IF machine_id = "HOSTbobWindows" THEN
        <<18, 245, 128, 15, 126, 104, 141, 182, 169, 223, 232, 231, 85, 132, 118, 41,
          166, 101, 19, 253, 73, 37, 126, 212, 122, 26, 29, 39, 54, 224, 185, 14>>
    ELSE IF machine_id = "HOSTaliceWindows" THEN
        <<74, 180, 63, 59, 226, 249, 240, 75, 235, 130, 187, 84, 137, 202, 71, 162,
          98, 73, 209, 93, 42, 209, 163, 76, 160, 228, 174, 57, 156, 132, 64, 117>>
    ELSE <<>>

\* os.getlogin()
os_getlogin == IF machine.login = NoLogin THEN Raise("OSError") ELSE Ok(machine.login)

\* bytes([b ^ key[i % len(key)] for i, b in enumerate(data)])
XorWithKey(data, key) ==
    [i \in 1..Len(data) |-> ByteXor(data[i], key[((i - 1) % Len(key)) + 1])]

\* keyring.delete_password(SERVICE_NAME, account): the exception and the store
keyring_delete_password(store, account, fault) ==
    IF fault THEN [exc |-> Raise("KeyringError"), store |-> store]
    ELSE IF ~\E e \in store : e[1] = account THEN
        [exc |-> Raise("PasswordDeleteError"), store |-> store]
    ELSE [exc |-> None, store |-> {e \in store : e[1] # account}]

\* keyring.set_password(SERVICE_NAME, account, password)
keyring_set_password(store, account, password, fault) ==
    IF fault THEN [exc |-> Raise("KeyringError"), store |-> store]
    ELSE [exc |-> None,
          store |-> {e \in store : e[1] # account} \cup {<<account, password>>}]

\* keyring.get_password(SERVICE_NAME, account)
keyring_get_password(store, account, fault) ==
    IF fault THEN Raise("KeyringError")
    ELSE IF \E e \in store : e[1] = account THEN
        Ok((CHOOSE e \in store : e[1] = account)[2])
    ELSE None

\* encrypt_cookie, lines 114-127: the fallback, and plaintext as the last resort
fallback_encrypt(cookie) ==
    LET login == os_getlogin
        data == Utf8Encode(cookie)
    IN  IF IsRaise(login) \/ IsRaise(data) THEN [value |-> cookie, scheme |-> "plaintext"]
        ELSE LET key == sha256(machine.node \o login.ok \o machine.system)
             IN  [value |-> V1_PREFIX \o b64encode(XorWithKey(data.ok, key)),
                  scheme |-> "v1"]

\* encrypt_cookie with the write before the delete: the new entry is deleted
encrypt_cookie_write_then_delete(cookie, user_id, faults) ==
    LET account == account_name(user_id)
        set == keyring_set_password(keyring, account, cookie, faults.set)
        del == keyring_delete_password(set.store, account, faults.delete)
        delPassed == ~IsRaise(del.exc) \/ del.exc = Raise("PasswordDeleteError")
        fb == fallback_encrypt(cookie)
    IN  IF ~KEYRING_AVAILABLE THEN
            [value |-> fb.value, scheme |-> fb.scheme, keyring |-> keyring, log |-> <<>>]
        ELSE IF IsRaise(set.exc) THEN
            [value |-> fb.value, scheme |-> fb.scheme, keyring |-> set.store,
             log |-> <<"set_password">>]
        ELSE IF ~delPassed THEN
            [value |-> fb.value, scheme |-> fb.scheme, keyring |-> del.store,
             log |-> <<"set_password", "delete_password">>]
        ELSE [value |-> KEYRING_PREFIX \o account, scheme |-> "keyring",
              keyring |-> del.store, log |-> <<"set_password", "delete_password">>]

\* encrypt_cookie as it would be with `return f"KEYRING:{account_name}"` placed
\* after the try block: the reference is returned although the write failed
encrypt_cookie_ignoring_write_failure(cookie, user_id, faults) ==
    LET account == account_name(user_id)
        del == keyring_delete_password(keyring, account, faults.delete)
        set == keyring_set_password(del.store, account, cookie, faults.set)
        fb == fallback_encrypt(cookie)
    IN  IF ~KEYRING_AVAILABLE THEN
            [value |-> fb.value, scheme |-> fb.scheme, keyring |-> keyring, log |-> <<>>]
        ELSE [value |-> KEYRING_PREFIX \o account, scheme |-> "keyring",
              keyring |-> set.store, log |-> <<"delete_password", "set_password">>]

\* encrypt_cookie: the stored value, the scheme that produced it, the credential
\* store afterwards and the credential-store calls made, in order
encrypt_cookie(cookie, user_id, faults) ==
    LET account == account_name(user_id)
        del == keyring_delete_password(keyring, account, faults.delete)
        delPassed == ~IsRaise(del.exc) \/ del.exc = Raise("PasswordDeleteError")
        set == keyring_set_password(del.store, account, cookie, faults.set)
        fb == fallback_encrypt(cookie)
    IN  IF ~KEYRING_AVAILABLE THEN
            [value |-> fb.value, scheme |-> fb.scheme, keyring |-> keyring, log |-> <<>>]
        ELSE IF ~delPassed THEN
            [value |-> fb.value, scheme |-> fb.scheme, keyring |-> del.store,
             log |-> <<"delete_password">>]
        ELSE IF IsRaise(set.exc) THEN
            [value |-> fb.value, scheme |-> fb.scheme, keyring |-> set.store,
             log |-> <<"delete_password", "set_password">>]
        ELSE [value |-> KEYRING_PREFIX \o account, scheme |-> "keyring",
              keyring |-> set.store, log |-> <<"delete_password", "set_password">>]

\* the fallback decoding with the key index counted from 1: key[(i + 1) % len(key)]
fallback_decrypt_key_off_by_one(encrypted_data) ==
    LET login == os_getlogin
        encrypted_bytes == b64decode(From(encrypted_data, 3))
    IN  IF IsRaise(login) \/ IsRaise(encrypted_bytes) THEN None
        ELSE LET key == sha256(machine.node \o login.ok \o machine.system)
                 data == encrypted_bytes.ok
                 decrypted == Utf8Decode([i \in 1..Len(data) |->
                                  ByteXor(data[i], key[(i % Len(key)) + 1])])
             IN  IF IsRaise(decrypted) THEN None ELSE decrypted

\* decrypt_cookie, lines 149-160
fallback_decrypt(encrypted_data) ==
    LET login == os_getlogin
        encrypted_bytes == b64decode(From(encrypted_data, 3))
    IN  IF IsRaise(login) \/ IsRaise(encrypted_bytes) THEN None
        ELSE LET key == sha256(machine.node \o login.ok \o machine.system)
                 decrypted == Utf8Decode(XorWithKey(encrypted_bytes.ok, key))
             IN  IF IsRaise(decrypted) THEN None ELSE decrypted

\* decrypt_cookie with the tags tested without their colon
decrypt_cookie_loose_tags(encrypted_data, user_id, faults) ==
    IF encrypted_data = <<>> THEN None
    ELSE IF StartsWith(encrypted_data, Upto(KEYRING_PREFIX, 7)) THEN
        IF KEYRING_AVAILABLE THEN
            LET password == keyring_get_password(keyring, From(encrypted_data, 8),
                                                 faults.get)
            IN  IF IsRaise(password) THEN None ELSE password
        ELSE None
    ELSE IF StartsWith(encrypted_data, Upto(V1_PREFIX, 2)) THEN
        fallback_decrypt(encrypted_data)
    ELSE Ok(encrypted_data)

\* decrypt_cookie: Ok(token) or None
decrypt_cookie(encrypted_data, user_id, faults) ==
    IF encrypted_data = <<>> THEN None
    ELSE IF StartsWith(encrypted_data, KEYRING_PREFIX) THEN
        IF KEYRING_AVAILABLE THEN
            LET password == keyring_get_password(keyring, From(encrypted_data, 8),
                                                 faults.get)
            IN  IF IsRaise(password) THEN None ELSE password
        ELSE None
    ELSE IF StartsWith(encrypted_data, V1_PREFIX) THEN fallback_decrypt(encrypted_data)
    ELSE Ok(encrypted_data)

is_encrypted(data) ==
    data # <<>> /\ (StartsWith(data, KEYRING_PREFIX) \/ StartsWith(data, V1_PREFIX))

-----------------------------------------------------------------------------
(* encrypt_cookie and decrypt_cookie called on sample inputs *)

NotCalled == [op |-> "none", of |-> "none"]

\* values found in the cookie field of a sessions.json written by this or an
\* earlier version: legacy plaintext, blobs, and look-alikes of the two tags
StoredValues ==
    Tokens \cup
    {<<118, 49>>,                              \* 'v1'
     <<118, 49, 58>>,                          \* 'v1:'
     <<118, 49, 58, 89>>,                      \* 'v1:Y' (bad padding)
     <<118, 49, 58, 33, 33>>,                  \* 'v1:!!'
     <<118, 49, 58, 119, 119, 61, 61>>,        \* 'v1:ww==' (byte 0xC3)
     <<86, 49, 58, 89, 81, 61, 61>>,           \* 'V1:YQ=='
     <<75, 69, 89, 82, 73, 78, 71>>,           \* 'KEYRING'
     KEYRING_PREFIX \o account_name(<<49>>),   \* 'KEYRING:session_1'
     KEYRING_PREFIX \o account_name(<<57>>),   \* 'KEYRING:session_9'
     <<107, 101, 121, 114, 105, 110, 103, 58, 115, 101, 115, 115, 105, 111, 110,
       95, 49>>}                               \* 'keyring:session_1'

Faults == [delete : BOOLEAN, set : BOOLEAN, get : BOOLEAN]

NoFaults == [delete |-> FALSE, set |-> FALSE, get |-> FALSE]

OtherVarsIdle ==
    /\ gcm = NotCalled
    /\ scan = NotCalled
    /\ check = NotCalled
    /\ flow = NotCalled
    /\ launcher = NotCalled

InitCookie ==
    /\ KEYRING_AVAILABLE \in BOOLEAN
    /\ machine \in Machines
    /\ keyring \in {{}} \cup {{<<account_name(u), Token_abc123>>} : u \in UserIds}
    /\ sessions_file = [valid |-> TRUE, data |-> <<>>]
    /\ call = NotCalled
    /\ ret = NotCalled
    /\ pc = "idle"
    /\ OtherVarsIdle

\* encrypt_cookie(cookie, user_id)
EncryptCookie ==
    /\ pc = "idle"
    /\ \E cookie \in Tokens, user_id \in UserIds, faults \in Faults :
        LET r == encrypt_cookie(cookie, user_id, faults) IN
        /\ faults.get = FALSE
        /\ keyring' = r.keyring
        /\ call' = [op |-> "encrypt_cookie", cookie |-> cookie, user_id |-> user_id,
                    value |-> r.value, scheme |-> r.scheme, log |-> r.log,
                    machine |-> machine,
                    store |-> r.keyring]
    /\ pc' = "encrypted"
    /\ UNCHANGED <<KEYRING_AVAILABLE, machine, sessions_file, ret, gcm, scan, check, flow,
                   launcher>>

\* the machine identity changes (renamed host, other account)
ChangeMachine ==
    /\ pc \in {"idle", "encrypted"}
    /\ machine' \in Machines \ {machine}
    /\ UNCHANGED <<KEYRING_AVAILABLE, keyring, sessions_file, call, ret, pc, gcm, scan,
                   check, flow, launcher>>

\* the user removes a credential in the OS credential manager
RemoveCredential ==
    /\ pc \in {"idle", "encrypted"}
    /\ \E e \in keyring : keyring' = keyring \ {e}
    /\ UNCHANGED <<KEYRING_AVAILABLE, machine, sessions_file, call, ret, pc, gcm, scan,
                   check, flow, launcher>>

\* decrypt_cookie(encrypt_cookie(cookie, user_id), user_id)
DecryptResult ==
    /\ pc = "encrypted"
    /\ \E get \in BOOLEAN :
        LET faults == [NoFaults EXCEPT !.get = get] IN
        ret' = [op |-> "decrypt_cookie", of |-> "result", data |-> call.value,
                user_id |-> call.user_id,
                result |-> decrypt_cookie(call.value, call.user_id, faults),
                get_fault |-> get, machine |-> machine, store |-> keyring]
    /\ pc' = "decrypted"
    /\ UNCHANGED <<KEYRING_AVAILABLE, machine, keyring, sessions_file, call, gcm, scan,
                   check, flow, launcher>>

\* decrypt_cookie(stored, user_id) on a value read from sessions.json
DecryptStored ==
    /\ pc = "idle"
    /\ \E data \in StoredValues, user_id \in UserIds, get \in BOOLEAN :
        LET faults == [NoFaults EXCEPT !.get = get] IN
        ret' = [op |-> "decrypt_cookie", of |-> "stored", data |-> data,
                user_id |-> user_id,
                result |-> decrypt_cookie(data, user_id, faults),
                get_fault |-> get, machine |-> machine, store |-> keyring]
    /\ pc' = "decrypted"
    /\ UNCHANGED <<KEYRING_AVAILABLE, machine, keyring, sessions_file, call, gcm, scan,
                   check, flow, launcher>>

NextCookie ==
    \/ EncryptCookie
    \/ ChangeMachine
    \/ RemoveCredential
    \/ DecryptResult
    \/ DecryptStored

SpecCookie == InitCookie /\ [][NextCookie]_vars

-----------------------------------------------------------------------------
(* Claims about encrypt_cookie and decrypt_cookie *)

SameEnvironment ==
    /\ ret.of = "result"
    /\ ret.machine = call.machine
    /\ ret.store = call.store
    /\ ~ret.get_fault

\* C1: without the credential store and with a machine identity,
\* encrypt_cookie yields a non-empty value that starts with 'v1:', and
\* decrypt_cookie of that value under the same machine identity yields the token.
C1_FallbackRoundTrip ==
    (call.op = "encrypt_cookie" /\ ~KEYRING_AVAILABLE /\ call.machine.login # NoLogin)
        => /\ call.value # <<>>
           /\ StartsWith(call.value, V1_PREFIX)
           /\ (ret.of = "result" /\ ret.machine = call.machine)
                  => ret.result = Ok(call.cookie)

\* the example of the specification: 'abc123' on machine id 'HOSTbobWindows'
C1_Witness ==
    /\ ret.of = "result"
    /\ ~KEYRING_AVAILABLE
    /\ call.cookie = Token_abc123
    /\ call.machine = [node |-> "HOST", login |-> "bob", system |-> "Windows"]
    /\ ret.machine = call.machine
    /\ StartsWith(call.value, V1_PREFIX)
    /\ ret.result = Ok(Token_abc123)

\* the credential-store lookup that a 'KEYRING:<account>' value stands for
CredentialLookup(account, store, available, fault) ==
    IF available /\ ~fault /\ \E e \in store : e[1] = account
    THEN {Ok(e[2]) : e \in {f \in store : f[1] = account}}
    ELSE {None}

\* `result` is None or a text whose fallback encoding carries the bytes of `data`
IsXorDecoding(result, data) ==
    \/ result = None
    \/ /\ IsOk(result)
       /\ fallback_encrypt(result.ok).scheme = "v1"
       /\ b64decode(From(fallback_encrypt(result.ok).value, 3)) = b64decode(From(data, 3))

\* C2: the prefix of the stored value alone selects the decoding: 'KEYRING:'
\* the credential-store lookup of the account named after the prefix, 'v1:'
\* the XOR decoding, and a value with neither prefix comes back unchanged.
C2_TagDispatch ==
    ret.op = "decrypt_cookie" =>
        IF StartsWith(ret.data, KEYRING_PREFIX)
        THEN ret.result \in CredentialLookup(From(ret.data, 8), ret.store,
                                             KEYRING_AVAILABLE, ret.get_fault)
        ELSE IF StartsWith(ret.data, V1_PREFIX)
        THEN IsXorDecoding(ret.result, ret.data)
        ELSE ret.result = Ok(ret.data)

\* 'keyring:session_1' carries neither tag and comes back as it is
C2_Witness ==
    /\ ret.of = "stored"
    /\ ret.data = <<107, 101, 121, 114, 105, 110, 103, 58, 115, 101, 115, 115, 105,
                    111, 110, 95, 49>>
    /\ ret.result = Ok(ret.data)

\* C5 as claimed: for every outcome of encrypt_cookie and every non-empty
\* token, decrypt_cookie of the result in the same environment yields the token.
C5_Original ==
    (SameEnvironment /\ call.cookie # <<>>) => ret.result = Ok(call.cookie)

\* C5: for every outcome of encrypt_cookie and every non-empty token,
\* decrypt_cookie of the result in the same environment yields the token,
\* unless the result is last-resort plaintext that itself starts with a tag.
C5_DecryptMirrorsEncrypt ==
    (/\ SameEnvironment
     /\ call.cookie # <<>>
     /\ ~(call.scheme = "plaintext" /\ is_encrypted(call.cookie)))
        => ret.result = Ok(call.cookie)

\* a credential-store reference that was written over an earlier entry and
\* read back
C5_Witness ==
    /\ SameEnvironment
    /\ call.scheme = "keyring"
    /\ call.log = <<"delete_password", "set_password">>
    /\ call.cookie = Token_long
    /\ ret.result = Ok(Token_long)

-----------------------------------------------------------------------------
(* SESSION MANAGEMENT: load_sessions and save_session *)

\* tokens saved in the session store: 'a' and 'b'
StoreTokens == {<<97>>, <<98>>}

LoginMethods == {"steam", "browser"}

\* a machine whose fallback works and one where os.getlogin() fails
StoreMachines == {m \in Machines : m.login \in {"bob", NoLogin}}

\* outcomes of writing sessions.json: written, open() fails and leaves the
\* file, json.dump fails after open() has truncated the file
WriteOutcomes == {"ok", "open_fails", "dump_fails"}

SaveFaults == [delete : BOOLEAN, set : BOOLEAN, get : {FALSE}, read : BOOLEAN,
               write : WriteOutcomes]

\* the faults that make a difference: the credential store is called only
\* when it is available, and set_password only after delete_password passed
ReachedFaults ==
    {f \in SaveFaults : /\ f.delete => KEYRING_AVAILABLE /\ ~f.set
                        /\ f.set => KEYRING_AVAILABLE}

\* load_sessions(): the mapping, {} when the file is missing or cannot be read
load_sessions(fault) ==
    IF fault \/ ~sessions_file.valid THEN <<>> ELSE sessions_file.data

\* save_session with the record built from the plaintext cookie
save_session_storing_plaintext(user_id, cookie, company_name, login_method, faults) ==
    LET sessions == load_sessions(faults.read)
        encrypted == encrypt_cookie(cookie, user_id, faults)
        record == [cookie |-> cookie, company_name |-> company_name,
                   login_method |-> login_method]
        updated == [u \in DOMAIN sessions \cup {user_id} |->
                        IF u = user_id THEN record ELSE sessions[u]]
    IN  [sessions_file |->
             IF faults.write = "ok" THEN [valid |-> TRUE, data |-> updated]
             ELSE IF faults.write = "open_fails" THEN sessions_file
             ELSE [valid |-> FALSE, data |-> <<>>],
         keyring |-> encrypted.keyring, value |-> encrypted.value,
         scheme |-> encrypted.scheme, log |-> encrypted.log,
         written |-> faults.write = "ok"]

\* save_session(user_id, cookie, company_name, login_method): the file and the
\* credential store afterwards, and what encrypt_cookie returned
save_session(user_id, cookie, company_name, login_method, faults) ==
    LET sessions == load_sessions(faults.read)
        encrypted == encrypt_cookie(cookie, user_id, faults)
        record == [cookie |-> encrypted.value, company_name |-> company_name,
                   login_method |-> login_method]
        updated == [u \in DOMAIN sessions \cup {user_id} |->
                        IF u = user_id THEN record ELSE sessions[u]]
    IN  [sessions_file |->
             IF faults.write = "ok" THEN [valid |-> TRUE, data |-> updated]
             ELSE IF faults.write = "open_fails" THEN sessions_file
             ELSE [valid |-> FALSE, data |-> <<>>],
         keyring |-> encrypted.keyring, value |-> encrypted.value,
         scheme |-> encrypted.scheme, log |-> encrypted.log,
         written |-> faults.write = "ok"]

InitStore ==
    /\ KEYRING_AVAILABLE \in BOOLEAN
    /\ machine \in StoreMachines
    /\ keyring = {}
    /\ sessions_file = [valid |-> TRUE, data |-> <<>>]
    /\ call = NotCalled
    /\ ret = NotCalled
    /\ pc = "store"
    /\ OtherVarsIdle

\* save_session(user_id, cookie, company_name, login_method)
SaveSession ==
    /\ pc = "store"
    /\ \E user_id \in UserIds, cookie \in StoreTokens, login_method \in LoginMethods,
          faults \in ReachedFaults :
        \E r \in {save_session(user_id, cookie, "Acme", login_method, faults)} :
        /\ sessions_file' = r.sessions_file
        /\ keyring' = r.keyring
        /\ call' = [op |-> "save_session", of |-> "none", cookie |-> cookie,
                    user_id |-> user_id, value |-> r.value, scheme |-> r.scheme,
                    log |-> r.log, written |-> r.written,
                    replaced |-> \E e \in keyring :
                                     e[1] = account_name(user_id) /\ e[2] # cookie]
    /\ UNCHANGED <<KEYRING_AVAILABLE, machine, ret, pc, gcm, scan, check, flow, launcher>>

NextStore == SaveSession

SpecStore == InitStore /\ [][NextStore]_vars

-----------------------------------------------------------------------------
(* Claims about save_session and the credential store *)

Reference(user_id) == KEYRING_PREFIX \o account_name(user_id)

Entries(account) == {e \in keyring : e[1] = account}

\* C3 as claimed: with the credential store available, every record of the
\* document holds the reference 'KEYRING:session_<user id>'.
C3_Original ==
    (KEYRING_AVAILABLE /\ sessions_file.valid)
        => \A u \in DOMAIN sessions_file.data :
               sessions_file.data[u].cookie = Reference(u)

\* C3: with the credential store available, a save_session whose delete and
\* write in the credential store succeed writes a record whose cookie field
\* is exactly 'KEYRING:session_<user id>', whatever the token; when they fail
\* the record holds the 'v1:' blob or, the fallback failing too, the token.
C3_ReferenceWhenStored ==
    (call.op = "save_session" /\ call.written)
        => LET record == sessions_file.data[call.user_id] IN
           /\ call.scheme = "keyring" <=>
                  (KEYRING_AVAILABLE /\ call.log = <<"delete_password", "set_password">>
                      /\ Entries(account_name(call.user_id)) # {})
           /\ call.scheme = "keyring" => record.cookie = Reference(call.user_id)
           /\ call.scheme = "v1" =>
                  /\ StartsWith(record.cookie, V1_PREFIX)
                  /\ record.cookie = fallback_encrypt(call.cookie).value
           /\ call.scheme = "plaintext" => record.cookie = call.cookie

\* two users saved through the credential store: both records hold references
C3_Witness ==
    /\ KEYRING_AVAILABLE
    /\ call.op = "save_session"
    /\ call.scheme = "keyring"
    /\ DOMAIN sessions_file.data = UserIds
    /\ \A u \in UserIds : sessions_file.data[u].cookie = Reference(u)

StoredUserIds(file) == IF file.valid THEN DOMAIN file.data ELSE {}

\* C14: session records are never deleted automatically: a save_session
\* that writes the document leaves every user id that was in it there and
\* the records of the other user ids unchanged, also when reading the
\* existing document fails.
C14_RecordsKept ==
    [][(call'.op = "save_session" /\ call'.written)
          => \A u \in StoredUserIds(sessions_file) :
                /\ u \in StoredUserIds(sessions_file')
                /\ u # call'.user_id => sessions_file'.data[u] = sessions_file.data[u]]_vars

-----------------------------------------------------------------------------
(* STEAM LOGIN METHOD: decrypt_aes_gcm *)

\* encrypted_value[3:]: the version marker of a cookie blob
VersionLen == 3

\* encrypted_value_bytes[:12]: the nonce
NonceLen == 12

\* ciphertext_with_tag[-16:]: the authentication tag
TagLen == 16

\* the key sizes algorithms.AES accepts, in bytes
AesKeySizes == {16, 24, 32}

\* The AES-GCM primitive of the cryptography package is modelled by a cipher
\* with the two properties the code relies on: under one key and nonce the
\* decryption inverts the encryption, and the tag depends on the key, the nonce
\* and every byte of the ciphertext so that finalize() rejects any other tag.
Keystream(key, nonce, i) ==
    (key[((i - 1) % Len(key)) + 1] + nonce[((i - 1) % Len(nonce)) + 1] + i) % 256

GcmCrypt(key, nonce, data) ==
    [i \in 1..Len(data) |-> ByteXor(data[i], Keystream(key, nonce, i))]

RECURSIVE WeightedSum(_, _, _)
WeightedSum(ciphertext, j, i) ==
    IF i > Len(ciphertext) THEN 0
    ELSE ciphertext[i] * (2 * (i + j) + 1) + WeightedSum(ciphertext, j, i + 1)

GcmTag(key, nonce, ciphertext) ==
    [j \in 1..TagLen |->
        (key[((j - 1) % Len(key)) + 1] + nonce[((j - 1) % Len(nonce)) + 1]
            + Len(ciphertext) + WeightedSum(ciphertext, j, 1)) % 256]

\* the blob the browser engine stores: version, nonce, ciphertext, tag
build_blob(version, key, nonce, data) ==
    LET ciphertext == GcmCrypt(key, nonce, data)
    IN  version \o nonce \o ciphertext \o GcmTag(key, nonce, ciphertext)

\* Cipher(algorithms.AES(key), modes.GCM(nonce, tag)).decryptor(): update()
\* gives the payload without looking at the tag
decryptor_update(key, nonce, tag, ciphertext) ==
    IF Len(key) \notin AesKeySizes THEN Raise("ValueError")
    ELSE IF Len(nonce) < 8 \/ Len(tag) < TagLen THEN Raise("ValueError")
    ELSE Ok(GcmCrypt(key, nonce, ciphertext))

\* update() + finalize(): finalize() raises InvalidTag unless the tag is the
\* tag of the ciphertext
decryptor_update_finalize(key, nonce, tag, ciphertext) ==
    LET payload == decryptor_update(key, nonce, tag, ciphertext)
    IN  IF IsRaise(payload) THEN payload
        ELSE IF tag # GcmTag(key, nonce, ciphertext) THEN Raise("InvalidTag")
        ELSE payload

\* decrypt_aes_gcm with the nonce taken to be 16 bytes long
decrypt_aes_gcm_long_nonce(encrypted_value, key) ==
    LET encrypted_value_bytes == From(encrypted_value, VersionLen)
        nonce == Upto(encrypted_value_bytes, 16)
        ciphertext_with_tag == From(encrypted_value_bytes, 16)
        tag == Tail_n(ciphertext_with_tag, TagLen)
        ciphertext == DropTail(ciphertext_with_tag, TagLen)
        payload == decryptor_update_finalize(key, nonce, tag, ciphertext)
    IN  IF IsRaise(payload) \/ IsRaise(Utf8Decode(payload.ok)) THEN None
        ELSE Ok(Utf8Decode(payload.ok).ok)

\* decrypt_aes_gcm without the call of finalize()
decrypt_aes_gcm_without_finalize(encrypted_value, key) ==
    LET encrypted_value_bytes == From(encrypted_value, VersionLen)
        nonce == Upto(encrypted_value_bytes, NonceLen)
        ciphertext_with_tag == From(encrypted_value_bytes, NonceLen)
        tag == Tail_n(ciphertext_with_tag, TagLen)
        ciphertext == DropTail(ciphertext_with_tag, TagLen)
        payload == decryptor_update(key, nonce, tag, ciphertext)
    IN  IF IsRaise(payload) \/ IsRaise(Utf8Decode(payload.ok)) THEN None
        ELSE Ok(Utf8Decode(payload.ok).ok)

\* decrypt_aes_gcm(encrypted_value, key): the text, or None for any exception
decrypt_aes_gcm(encrypted_value, key) ==
    LET encrypted_value_bytes == From(encrypted_value, VersionLen)
        nonce == Upto(encrypted_value_bytes, NonceLen)
        ciphertext_with_tag == From(encrypted_value_bytes, NonceLen)
        tag == Tail_n(ciphertext_with_tag, TagLen)
        ciphertext == DropTail(ciphertext_with_tag, TagLen)
        payload == decryptor_update_finalize(key, nonce, tag, ciphertext)
    IN  IF IsRaise(payload) \/ IsRaise(Utf8Decode(payload.ok)) THEN None
        ELSE Ok(Utf8Decode(payload.ok).ok)

\* two 256-bit keys, and a key of a size AES does not accept
Key_A == [i \in 1..32 |-> (7 * i) % 256]
Key_B == [i \in 1..32 |-> (255 - 3 * i) % 256]
Key_short == <<1, 2, 3, 4, 5>>
GcmKeys == {Key_A, Key_B}

Nonces == {[i \in 1..NonceLen |-> i], [i \in 1..NonceLen |-> (200 + 5 * i) % 256]}

\* the version markers 'v10' and 'v11'
Versions == {<<118, 49, 48>>, <<118, 49, 49>>}

\* plaintexts: '', 'a', 'e-acute', 'abc123', 'a%20b', ' t ', a 17-character text
GcmTexts ==
    {<<>>, <<97>>, <<233>>, Token_abc123, <<97, 37, 50, 48, 98>>, <<32, 116, 32>>,
     [i \in 1..17 |-> 96 + i]}

\* the changes made to one byte of a blob
TamperDeltas == {1, 128}

BlobPart(blob, i) ==
    IF i <= VersionLen THEN "version"
    ELSE IF i <= VersionLen + NonceLen THEN "nonce"
    ELSE IF i <= Len(blob) - TagLen THEN "ciphertext"
    ELSE "tag"

OtherVarsIdleGcm ==
    /\ KEYRING_AVAILABLE = FALSE
    /\ machine = NotCalled
    /\ keyring = {}
    /\ sessions_file = NotCalled
    /\ call = NotCalled
    /\ ret = NotCalled
    /\ scan = NotCalled
    /\ check = NotCalled
    /\ flow = NotCalled
    /\ launcher = NotCalled

InitGcm ==
    /\ gcm = NotCalled
    /\ pc = "gcm"
    /\ OtherVarsIdleGcm

\* a blob is built in the layout of the cookie store
BuildBlob ==
    /\ gcm.op = "none"
    /\ \E version \in Versions, key \in GcmKeys, nonce \in Nonces, text \in GcmTexts :
        gcm' = [op |-> "built", of |-> "none", key |-> key, plaintext |-> text,
                blob |-> build_blob(version, key, nonce, Utf8Encode(text).ok),
                part |-> "none", used_key |-> <<>>, result |-> None]
    /\ UNCHANGED <<KEYRING_AVAILABLE, machine, keyring, sessions_file, call, ret, pc,
                   scan, check, flow, launcher>>

\* one byte of the blob is changed
TamperBlob ==
    /\ gcm.op = "built"
    /\ gcm.part = "none"
    /\ \E i \in 1..Len(gcm.blob), d \in TamperDeltas :
        gcm' = [gcm EXCEPT !.blob = [gcm.blob EXCEPT ![i] = (@ + d) % 256],
                           !.part = BlobPart(gcm.blob, i)]
    /\ UNCHANGED <<KEYRING_AVAILABLE, machine, keyring, sessions_file, call, ret, pc,
                   scan, check, flow, launcher>>

\* the blob loses its last bytes
TruncateBlob ==
    /\ gcm.op = "built"
    /\ gcm.part = "none"
    /\ \E n \in {0, 2, VersionLen + NonceLen, VersionLen + NonceLen + TagLen - 1} :
        /\ n < Len(gcm.blob)
        /\ gcm' = [gcm EXCEPT !.blob = Upto(gcm.blob, n), !.part = "truncated"]
    /\ UNCHANGED <<KEYRING_AVAILABLE, machine, keyring, sessions_file, call, ret, pc,
                   scan, check, flow, launcher>>

\* decrypt_aes_gcm(encrypted_value, key)
DecryptAesGcm ==
    /\ gcm.op = "built"
    /\ \E key \in GcmKeys \cup {Key_short} :
        gcm' = [gcm EXCEPT !.op = "decrypted", !.used_key = key,
                           !.result = decrypt_aes_gcm(gcm.blob, key)]
    /\ UNCHANGED <<KEYRING_AVAILABLE, machine, keyring, sessions_file, call, ret, pc,
                   scan, check, flow, launcher>>

NextGcm == BuildBlob \/ TamperBlob \/ TruncateBlob \/ DecryptAesGcm

SpecGcm == InitGcm /\ [][NextGcm]_vars

-----------------------------------------------------------------------------
(* Claims about decrypt_aes_gcm *)

\* C6: a blob built as [3-byte version][12-byte nonce][ciphertext][16-byte tag]
\* decrypts under the key it was built with to exactly the original text,
\* whatever the version marker, the key, the nonce and the text.
C6_LayoutRoundTrip ==
    (gcm.op = "decrypted" /\ gcm.part = "none" /\ gcm.used_key = gcm.key)
        => /\ Len(gcm.blob) = VersionLen + NonceLen + Len(Utf8Encode(gcm.plaintext).ok) + TagLen
           /\ gcm.result = Ok(gcm.plaintext)

\* a text longer than a tag comes back from its blob
C6_Witness ==
    /\ gcm.op = "decrypted"
    /\ gcm.part = "none"
    /\ gcm.used_key = gcm.key
    /\ gcm.plaintext = [i \in 1..17 |-> 96 + i]
    /\ gcm.result = Ok(gcm.plaintext)

\* C7: a blob that differs from a built one in one byte of the ciphertext or
\* of the tag decrypts to None: no text comes back, the original included,
\* and no exception leaves decrypt_aes_gcm.
C7_TamperDetected ==
    (gcm.op = "decrypted" /\ gcm.part \in {"ciphertext", "tag"})
        => gcm.result = None

\* a changed ciphertext byte, decrypted with the key of the blob, gives None
C7_Witness ==
    /\ gcm.op = "decrypted"
    /\ gcm.part = "ciphertext"
    /\ gcm.used_key = gcm.key
    /\ gcm.plaintext = Token_abc123
    /\ gcm.result = None

-----------------------------------------------------------------------------
(* STEAM LOGIN METHOD: get_aes_key and get_steam_cookie *)

IsHex(c) == c \in (48..57) \cup (65..70) \cup (97..102)

HexValue(c) == IF c <= 57 THEN c - 48 ELSE IF c <= 70 THEN c - 55 ELSE c - 87

\* urllib.parse.unquote from position i on; `run` holds the bytes of the run
\* of ASCII characters read so far, decoded as UTF-8 with errors='replace'
RECURSIVE UnquoteFrom(_, _, _)
UnquoteFrom(s, i, run) ==
    IF i > Len(s) THEN Utf8DecodeReplace(run)
    ELSE IF s[i] >= 128 THEN
        Utf8DecodeReplace(run) \o <<s[i]>> \o UnquoteFrom(s, i + 1, <<>>)
    ELSE IF s[i] = 37 /\ i + 2 <= Len(s) /\ IsHex(s[i + 1]) /\ IsHex(s[i + 2]) THEN
        UnquoteFrom(s, i + 3, Append(run, 16 * HexValue(s[i + 1]) + HexValue(s[i + 2])))
    ELSE UnquoteFrom(s, i + 1, Append(run, s[i]))

\* urllib.parse.unquote(string)
unquote(string) ==
    IF \A i \in 1..Len(string) : string[i] # 37 THEN string
    ELSE UnquoteFrom(string, 1, <<>>)

\* the characters str.strip() removes
WhiteSpace ==
    (9..13) \cup (28..32) \cup {133, 160, 5760} \cup (8192..8202)
        \cup {8232, 8233, 8239, 8287, 12288}

\* str.strip()
strip(s) ==
    LET keep == {i \in 1..Len(s) : s[i] \notin WhiteSpace}
    IN  IF keep = {} THEN <<>>
        ELSE SubSeq(s, Least(keep), CHOOSE i \in keep : \A j \in keep : j <= i)

\* what get_aes_key finds at prefs_path
PrefsStates == {"ok", "empty_key", "unreadable", "not_json", "no_encrypted_key",
                "not_base64", "unwrap_fails"}

\* get_aes_key(prefs_path): the unwrapped key, None for any exception
get_aes_key(prefs) ==
    IF prefs = "ok" THEN Ok(Key_A)
    ELSE IF prefs = "empty_key" THEN Ok(<<>>)
    ELSE None

TARGET_COOKIE_NAME == "shipping_manager_session"

\* the rows of the cookie store for the domain: the target cookie holding
\* 'abc123', 'a%20b', '%20' and '', the target cookie encrypted under another
\* key and cut short, and another cookie of the domain
RowKinds ==
    {[name |-> TARGET_COOKIE_NAME,
      encrypted_value |-> build_blob(<<118, 49, 48>>, Key_A, [i \in 1..NonceLen |-> i], t)]
        : t \in {Token_abc123, <<97, 37, 50, 48, 98>>, <<37, 50, 48>>, <<>>}}
    \cup {[name |-> TARGET_COOKIE_NAME,
           encrypted_value |-> build_blob(<<118, 49, 48>>, Key_B, [i \in 1..NonceLen |-> i],
                                          <<120>>)],
          [name |-> TARGET_COOKIE_NAME, encrypted_value |-> <<118, 49, 48, 1, 2>>],
          [name |-> "steamLoginSecure",
           encrypted_value |-> build_blob(<<118, 49, 48>>, Key_A, [i \in 1..NonceLen |-> i],
                                          <<122, 122>>)]}

MaxRows == 3

RowLists == SeqsUpTo(RowKinds, MaxRows)

\* for i in range(10): the polls for the absence of steam.exe
Polls == 10

\* if i == 4: the poll after which the windows are asked to close
ClosePoll == 5

\* the scan with `return None` in place of `continue` for a row that does
\* not decrypt
RECURSIVE scan_rows_aborting(_, _, _, _)
scan_rows_aborting(results, i, aes_key, target_name) ==
    IF i > Len(results) THEN None
    ELSE LET decrypted_payload_utf8 == decrypt_aes_gcm(results[i].encrypted_value, aes_key)
         IN  IF decrypted_payload_utf8 = None THEN None
             ELSE LET final_token == strip(unquote(decrypted_payload_utf8.ok))
                  IN  IF results[i].name = target_name /\ final_token # <<>>
                      THEN Ok(final_token)
                      ELSE scan_rows_aborting(results, i + 1, aes_key, target_name)

\* lines 633-641: the scan of the rows, from row i on
RECURSIVE scan_rows(_, _, _, _)
scan_rows(results, i, aes_key, target_name) ==
    IF i > Len(results) THEN None
    ELSE LET decrypted_payload_utf8 == decrypt_aes_gcm(results[i].encrypted_value, aes_key)
         IN  IF decrypted_payload_utf8 = None
             THEN scan_rows(results, i + 1, aes_key, target_name)
             ELSE LET final_token == strip(unquote(decrypted_payload_utf8.ok))
                  IN  IF results[i].name = target_name /\ final_token # <<>>
                      THEN Ok(final_token)
                      ELSE scan_rows(results, i + 1, aes_key, target_name)

\* lines 710-718: the scan of the rows read after Steam was closed
RECURSIVE scan_rows_unlocked(_, _, _, _)
scan_rows_unlocked(results2, i, aes_key, target_name) ==
    IF i > Len(results2) THEN None
    ELSE LET decrypted_payload_utf8 == decrypt_aes_gcm(results2[i].encrypted_value, aes_key)
         IN  IF decrypted_payload_utf8 # None /\ decrypted_payload_utf8.ok # <<>>
                /\ results2[i].name = target_name
                /\ strip(unquote(decrypted_payload_utf8.ok)) # <<>>
             THEN Ok(strip(unquote(decrypted_payload_utf8.ok)))
             ELSE scan_rows_unlocked(results2, i + 1, aes_key, target_name)

\* lines 679-698: Steam is asked to exit and polled; steam_gone is the poll
\* at which tasklist first shows no steam.exe (Polls + 1: at none of them)
close_steam(steam_gone) ==
    <<"steam://exit">>
    \o Concat([k \in 1..Min(steam_gone, Polls) |->
                  IF k = ClosePoll /\ steam_gone > ClosePoll
                  THEN <<"tasklist", "taskkill">> ELSE <<"tasklist">>])
    \o (IF steam_gone > Polls THEN <<"taskkill /F">> ELSE <<>>)

\* the recovery going on to close Steam when the copy yields no cookie
RECURSIVE get_steam_cookie_closing_after_copy(_, _, _)
get_steam_cookie_closing_after_copy(db_path, env, frames) ==
    LET aes_key == get_aes_key(env.prefs)
        db == IF db_path = "copy" THEN env.copy_db ELSE env.db
        closing == [result |-> scan_rows_unlocked(env.rows, 1, aes_key.ok, TARGET_COOKIE_NAME),
                    log |-> <<"robocopy">> \o close_steam(env.steam_gone)
                            \o <<"read", "find steam.exe">>
                            \o (IF env.steam_installed THEN <<"steam -silent">> ELSE <<>>)]
    IN  IF aes_key = None \/ aes_key.ok = <<>> THEN [result |-> None, log |-> <<>>]
        ELSE IF db = "open" THEN
            [result |-> scan_rows(env.rows, 1, aes_key.ok, TARGET_COOKIE_NAME),
             log |-> <<"read">>]
        ELSE IF db = "error" THEN [result |-> None, log |-> <<>>]
        ELSE IF env.robocopy = "raises" THEN [result |-> None, log |-> <<"robocopy">>]
        ELSE IF env.robocopy = "copied" THEN
            IF frames + 1 > 2
            THEN closing
            ELSE LET copy == get_steam_cookie_closing_after_copy("copy", env, frames + 1)
                 IN  IF copy.result = None THEN closing
                     ELSE [result |-> copy.result,
                           log |-> <<"robocopy">> \o copy.log \o <<"remove copy">>]
        ELSE IF env.direct = "error" THEN
            [result |-> None, log |-> <<"robocopy">> \o close_steam(env.steam_gone)]
        ELSE closing

\* the frames the interpreter allows (sys.getrecursionlimit()): a call that
\* would exceed them raises RecursionError
RecursionLimit == 3

\* get_steam_cookie(db_path, prefs_path, domain, target_name) in the
\* environment env, called in frame `frames`: the result and the commands
\* run.  env.db and env.copy_db say what sqlite3 does with the database and
\* with its copy ("open", "locked": OperationalError, "error": another
\* exception).  Called on the copy, robocopy copies the copy onto itself and
\* the file is there afterwards.
RECURSIVE get_steam_cookie_frame(_, _, _)
get_steam_cookie_frame(db_path, env, frames) ==
    LET aes_key == get_aes_key(env.prefs)
        db == IF db_path = "copy" THEN env.copy_db ELSE env.db
    IN  IF aes_key = None \/ aes_key.ok = <<>> THEN [result |-> None, log |-> <<>>]
        ELSE IF db = "open" THEN
            [result |-> scan_rows(env.rows, 1, aes_key.ok, TARGET_COOKIE_NAME),
             log |-> <<"read">>]
        ELSE IF db = "error" THEN [result |-> None, log |-> <<>>]
        ELSE IF env.robocopy = "raises" THEN [result |-> None, log |-> <<"robocopy">>]
        ELSE IF env.robocopy = "copied" THEN
            IF frames + 1 > RecursionLimit
            THEN [result |-> None, log |-> <<"robocopy">>]
            ELSE LET copy == get_steam_cookie_frame("copy", env, frames + 1)
                 IN  [result |-> copy.result,
                      log |-> <<"robocopy">> \o copy.log \o <<"remove copy">>]
        ELSE IF env.direct = "error" THEN
            [result |-> None, log |-> <<"robocopy">> \o close_steam(env.steam_gone)]
        ELSE [result |-> scan_rows_unlocked(env.rows, 1, aes_key.ok, TARGET_COOKIE_NAME),
              log |-> <<"robocopy">> \o close_steam(env.steam_gone)
                      \o <<"read", "find steam.exe">>
                      \o (IF env.steam_installed THEN <<"steam -silent">> ELSE <<>>)]

get_steam_cookie(db_path, env) == get_steam_cookie_frame(db_path, env, 1)

\* the environments of a call: the fields that the path taken does not read
\* are fixed
NoRows == <<>>

Env(prefs, db, robocopy, copy_db, steam_gone, direct, steam_installed, rows) ==
    [prefs |-> prefs, db |-> db, robocopy |-> robocopy, copy_db |-> copy_db,
     steam_gone |-> steam_gone, direct |-> direct,
     steam_installed |-> steam_installed, rows |-> rows]

Envs ==
    {Env(p, "open", "no_file", "open", 1, "open", TRUE, NoRows) : p \in PrefsStates \ {"ok"}}
    \cup {Env("ok", "open", "no_file", "open", 1, "open", TRUE, r) : r \in RowLists}
    \cup {Env("ok", "error", "no_file", "open", 1, "open", TRUE, NoRows)}
    \cup {Env("ok", "locked", "raises", "open", 1, "open", TRUE, NoRows)}
    \cup {Env("ok", "locked", "copied", "open", 1, "open", TRUE, r) : r \in RowLists}
    \cup {Env("ok", "locked", "copied", "error", 1, "open", TRUE, NoRows)}
    \cup {Env("ok", "locked", "copied", "locked", 1, "open", TRUE, r) :
              r \in {l \in RowLists : Len(l) <= 1}}
    \cup {Env("ok", "locked", "no_file", "open", g, "error", s, NoRows) :
              g \in 1..(Polls + 1), s \in BOOLEAN}
    \cup {Env("ok", "locked", "no_file", "open", 1, "open", TRUE, r) : r \in RowLists}
    \cup {Env("ok", "locked", "no_file", "open", g, "open", s, r) :
              g \in {1, ClosePoll, Polls + 1}, s \in BOOLEAN,
              r \in {l \in RowLists : Len(l) <= 1}}

InitScan ==
    /\ scan = NotCalled
    /\ gcm = NotCalled
    /\ pc = "scan"
    /\ OtherVarsIdleGcm

\* get_steam_cookie(COOKIE_PATH, LOCAL_PREFS_PATH, TARGET_DOMAIN, TARGET_COOKIE_NAME)
GetSteamCookie ==
    /\ scan.op = "none"
    /\ \E env \in Envs :
        \E r \in {get_steam_cookie("db", env)} :
            scan' = [op |-> "get_steam_cookie", of |-> "none", env |-> env,
                     result |-> r.result, log |-> r.log]
    /\ UNCHANGED <<KEYRING_AVAILABLE, machine, keyring, sessions_file, call, ret, pc,
                   gcm, check, flow, launcher>>

NextScan == GetSteamCookie

SpecScan == InitScan /\ [][NextScan]_vars

-----------------------------------------------------------------------------
(* Claims about get_steam_cookie *)

\* the token of row i: its decrypted text, percent-decoded and stripped;
\* None when the row does not decrypt
RowToken(row) ==
    LET text == decrypt_aes_gcm(row.encrypted_value, Key_A)
    IN  IF text = None THEN None ELSE Ok(strip(unquote(text.ok)))

\* the rows that carry the target cookie, decrypt, and hold a token
GoodRows(rows) ==
    {i \in 1..Len(rows) : /\ rows[i].name = TARGET_COOKIE_NAME
                          /\ RowToken(rows[i]) # None
                          /\ RowToken(rows[i]).ok # <<>>}

Count(log, command) == Cardinality({k \in DOMAIN log : log[k] = command})

\* the positions of the polls in the log
PollsAt(log) == {k \in DOMAIN log : log[k] = "tasklist"}

\* C11: the locked-database recovery is bounded: one copy attempt, at most
\* 10 polls for Steam's absence, one non-forced kill and that after the 5th
\* poll, one forced kill and that only after 10 polls that all saw the
\* process, and one read of the database; no environment, a copy that cannot
\* be queried included, makes the recovery run more often than that.
C11_RecoveryBounded ==
    scan.op = "get_steam_cookie"
        => /\ Count(scan.log, "robocopy") <= 1
           /\ Count(scan.log, "tasklist") <= Polls
           /\ Count(scan.log, "taskkill") <= 1
           /\ \A k \in DOMAIN scan.log :
                 scan.log[k] = "taskkill"
                    => Cardinality({j \in PollsAt(scan.log) : j < k}) = ClosePoll
           /\ Count(scan.log, "taskkill /F") <= 1
           /\ Count(scan.log, "taskkill /F") = 1
                 => Count(scan.log, "tasklist") = Polls /\ scan.env.steam_gone > Polls
           /\ Count(scan.log, "read") <= 1

\* the commands that tell Steam to exit or kill it
SteamStopped(log) ==
    \E k \in DOMAIN log : log[k] \in {"steam://exit", "taskkill", "taskkill /F"}

\* C12: the recovery of a locked database attempts the copy first; when the
\* copy exists the result comes from the copy alone (the first good row of
\* a copy that can be read, None otherwise) and Steam is left alone; Steam
\* is told to exit or killed only when the database could not be opened and
\* the copy produced no file.
C12_CopyFirst ==
    scan.op = "get_steam_cookie"
        => /\ SteamStopped(scan.log)
                => /\ scan.env.db = "locked"
                   /\ scan.env.robocopy = "no_file"
                   /\ scan.log[1] = "robocopy"
           /\ (scan.env.prefs = "ok" /\ scan.env.db = "locked")
                => /\ scan.log # <<>>
                   /\ scan.log[1] = "robocopy"
           /\ (scan.env.prefs = "ok" /\ scan.env.db = "locked"
                   /\ scan.env.robocopy = "copied")
                => /\ ~SteamStopped(scan.log)
                   /\ Count(scan.log, "find steam.exe") = 0
                   /\ scan.result =
                        IF scan.env.copy_db = "open" /\ GoodRows(scan.env.rows) # {}
                        THEN RowToken(scan.env.rows[Least(GoodRows(scan.env.rows))])
                        ELSE None

\* the database is locked, the copy is there and holds no good row: the
\* result is None and Steam was not touched
C12_Witness ==
    /\ scan.op = "get_steam_cookie"
    /\ scan.env.db = "locked"
    /\ scan.env.robocopy = "copied"
    /\ scan.env.copy_db = "open"
    /\ Len(scan.env.rows) = 1
    /\ scan.log = <<"robocopy", "read", "remove copy">>
    /\ scan.result = None

\* C13: on every path of the recovery on which Steam was told to exit or
\* was killed, the relaunch of Steam is attempted (its executable is looked
\* for) before get_steam_cookie returns, also when the direct read of the
\* database fails.
C13_RelaunchAttempted ==
    (scan.op = "get_steam_cookie" /\ SteamStopped(scan.log))
        => Count(scan.log, "find steam.exe") = 1

-----------------------------------------------------------------------------
(* SESSION MANAGEMENT: validate_session_cookie *)

\* JSON values as Python sees them after response.json(); an object is the
\* set of its <<key, value>> pairs
JsonNull == [t |-> "null"]
JsonNumber(n) == [t |-> "number", n |-> n]
JsonString(s) == [t |-> "string", s |-> s]
JsonBool(b) == [t |-> "bool", b |-> b]
JsonArray(items) == [t |-> "array", items |-> items]
JsonObject(fields) == [t |-> "object", fields |-> fields]

\* bool(value)
Truthy(value) ==
    IF value.t = "null" THEN FALSE
    ELSE IF value.t = "number" THEN value.n # 0
    ELSE IF value.t = "string" THEN value.s # ""
    ELSE IF value.t = "bool" THEN value.b
    ELSE IF value.t = "array" THEN value.items # <<>>
    ELSE value.fields # {}

HasKey(value, key) == \E f \in value.fields : f[1] = key

\* value[key]
Item(value, key) == (CHOOSE f \in value.fields : f[1] = key)[2]

\* value.get(key, default): AttributeError unless value is a dict
dict_get(value, key, default) ==
    IF value.t # "object" THEN Raise("AttributeError")
    ELSE IF HasKey(value, key) THEN Ok(Item(value, key))
    ELSE Ok(default)

\* the user objects a body can carry under 'user'
UserValues ==
    {JsonObject({<<"id", id>>, <<"name", JsonString("Acme")>>}) :
        id \in {JsonNumber(7), JsonNumber(0), JsonString("7"), JsonString(""), JsonNull}}
    \cup {JsonObject({<<"name", JsonString("Acme")>>}), JsonObject({}),
          JsonNull, JsonString("7"), JsonArray(<<JsonNumber(7)>>), JsonNumber(7)}

\* the bodies of a response: text that is no JSON, and JSON values
Bodies ==
    {[json |-> FALSE]}
    \cup {[json |-> TRUE, data |-> d] :
            d \in {JsonNull, JsonArray(<<>>), JsonString("ok"), JsonObject({}),
                   JsonObject({<<"error", JsonString("unauthorized")>>})}}
    \cup {[json |-> TRUE, data |-> JsonObject({<<"user", u>>})] : u \in UserValues}

StatusCodes == {200, 204, 401, 500}

\* what requests.post does: a response, or an exception
PostOutcomes ==
    {[response |-> TRUE, status_code |-> s, body |-> b] : s \in StatusCodes, b \in Bodies}
    \cup {[response |-> FALSE, exc |-> e] :
            e \in {"Timeout", "ConnectionError", "SSLError"}}

\* response.json()
response_json(body) == IF body.json THEN Ok(body.data) ELSE Raise("JSONDecodeError")

\* lines 235-250, the body of the try: the value returned or the exception
post_and_read(outcome) ==
    IF ~outcome.response THEN Raise(outcome.exc)
    ELSE IF outcome.status_code # 200 THEN None
    ELSE LET data == response_json(outcome.body)
             user == dict_get(data.ok, "user", JsonObject({}))
             id == dict_get(user.ok, "id", JsonNull)
         IN  IF IsRaise(data) THEN data
             ELSE IF IsRaise(user) THEN user
             ELSE IF IsRaise(id) THEN id
             ELSE IF Truthy(id.ok) THEN Ok(Item(data.ok, "user"))
             ELSE None

\* validate_session_cookie catching only the exceptions of requests
validate_session_cookie_catching_requests_only(cookie, user_id, faults, outcome) ==
    LET decrypted == decrypt_cookie(cookie, user_id, faults)
        answer == post_and_read(outcome)
    IN  IF is_encrypted(cookie) /\ user_id = None THEN [result |-> None, posted |-> FALSE]
        ELSE IF is_encrypted(cookie) /\ (decrypted = None \/ decrypted.ok = <<>>) THEN
            [result |-> None, posted |-> FALSE]
        ELSE IF IsRaise(answer) /\ answer.raised \in {"Timeout", "ConnectionError", "SSLError"}
            THEN [result |-> None, posted |-> TRUE]
        ELSE [result |-> answer, posted |-> TRUE]

\* validate_session_cookie(cookie, user_id): the user object or None, and
\* whether the endpoint was asked
validate_session_cookie(cookie, user_id, faults, outcome) ==
    LET decrypted == decrypt_cookie(cookie, user_id, faults)
        answer == post_and_read(outcome)
    IN  IF is_encrypted(cookie) /\ user_id = None THEN [result |-> None, posted |-> FALSE]
        ELSE IF is_encrypted(cookie) /\ (decrypted = None \/ decrypted.ok = <<>>) THEN
            [result |-> None, posted |-> FALSE]
        ELSE IF IsRaise(answer) THEN [result |-> None, posted |-> TRUE]
        ELSE [result |-> answer, posted |-> TRUE]

\* the cookie values handed to the check: a plaintext token, a reference to
\* the credential store, the 'v1:' blob of 'abc123' on 'HOSTbobWindows', and
\* a 'v1:' value that is no blob
CheckedCookies ==
    {Token_abc123, Token_keyring,
     <<118, 49, 58, 99, 53, 102, 106, 80, 107, 120, 98>>, <<118, 49, 58, 33, 33>>}

InitValidate ==
    /\ KEYRING_AVAILABLE \in BOOLEAN
    /\ machine \in {m \in Machines : m.login = "bob"}
    /\ keyring \in {{}, {<<account_name(<<49>>), Token_abc123>>}}
    /\ sessions_file = [valid |-> TRUE, data |-> <<>>]
    /\ call = NotCalled
    /\ ret = NotCalled
    /\ pc = "validate"
    /\ OtherVarsIdle

\* validate_session_cookie(cookie, user_id)
ValidateSessionCookie ==
    /\ check.op = "none"
    /\ \E cookie \in CheckedCookies, user_id \in {None, Ok(<<49>>)},
          get_fault \in BOOLEAN, outcome \in PostOutcomes :
        \E r \in {validate_session_cookie(cookie, user_id,
                                          [NoFaults EXCEPT !.get = get_fault], outcome)} :
            check' = [op |-> "validate_session_cookie", of |-> "none", cookie |-> cookie,
                      user_id |-> user_id, outcome |-> outcome, posted |-> r.posted,
                      result |-> r.result]
    /\ UNCHANGED <<KEYRING_AVAILABLE, machine, keyring, sessions_file, call, ret, pc,
                   gcm, scan, flow, launcher>>

NextValidate == ValidateSessionCookie

SpecValidate == InitValidate /\ [][NextValidate]_vars

-----------------------------------------------------------------------------
(* Claims about validate_session_cookie *)

\* the endpoint answered 200 with a JSON object whose 'user' is an object
\* with an id that is neither null, 0 nor ''
AnsweredWithUser(c) ==
    /\ c.posted
    /\ c.outcome.response
    /\ c.outcome.status_code = 200
    /\ c.outcome.body.json
    /\ c.outcome.body.data.t = "object"
    /\ \E u \in c.outcome.body.data.fields :
           /\ u[1] = "user"
           /\ u[2].t = "object"
           /\ \E f \in u[2].fields : f[1] = "id" /\ f[2] \in {JsonNumber(7), JsonString("7")}

\* C9: validate_session_cookie returns the user object exactly when the
\* endpoint answers 200 with a JSON body whose user object has an id; for
\* every other outcome (another status, an exception of the request, a body
\* that is no JSON or has another shape) it returns None, and no exception
\* leaves it.
C9_UserOrNone ==
    check.op = "validate_session_cookie"
        => /\ ~IsRaise(check.result)
           /\ IF AnsweredWithUser(check)
              THEN check.result = Ok(Item(check.outcome.body.data, "user"))
              ELSE check.result = None

\* a cookie kept in the credential store is looked up, sent, and the
\* endpoint's user object comes back
C9_Witness ==
    /\ check.op = "validate_session_cookie"
    /\ check.cookie = Token_keyring
    /\ AnsweredWithUser(check)
    /\ check.result = Ok(JsonObject({<<"id", JsonNumber(7)>>,
                                     <<"name", JsonString("Acme")>>}))

-----------------------------------------------------------------------------
(* STEAM LOGIN METHOD and MAIN: steam_login, main, get_user_session *)

\* what steam_login meets: the two files, and the environment of the extraction
SteamStates ==
    {[cookie_db |-> FALSE, prefs_file |-> TRUE,
      env |-> Env("ok", "open", "no_file", "open", 1, "open", TRUE, NoRows)],
     [cookie_db |-> TRUE, prefs_file |-> FALSE,
      env |-> Env("unreadable", "open", "no_file", "open", 1, "open", TRUE, NoRows)]}
    \cup {[cookie_db |-> TRUE, prefs_file |-> TRUE, env |-> e] :
            e \in {Env("unwrap_fails", "open", "no_file", "open", 1, "open", TRUE, NoRows),
                   Env("ok", "open", "no_file", "open", 1, "open", TRUE, NoRows)}
                  \cup {Env("ok", "open", "no_file", "open", 1, "open", TRUE, <<r>>) :
                          r \in {k \in RowKinds : k.name = TARGET_COOKIE_NAME}}}

\* `cookie if cookie else None`
CookieOrNone(cookie) == IF cookie # None /\ cookie.ok # <<>> THEN cookie ELSE None

\* steam_login(): the cookie or None
steam_login(steam) ==
    IF ~steam.cookie_db \/ ~steam.prefs_file THEN None
    ELSE CookieOrNone(get_steam_cookie("db", steam.env).result)

\* a saved session as main sees it after validate_all_sessions and
\* get_expired_sessions_with_methods
NoSession == [state |-> "absent", method |-> "unknown"]

SessionStates ==
    {NoSession} \cup [state : {"valid", "expired"}, method : {"steam", "browser", "unknown"}]

valid_sessions(f) == {u \in UserIds : f.sessions[u].state = "valid"}

expired_sessions(f) == {u \in UserIds : f.sessions[u].state = "expired"}

\* show_login_dialog(): cancelled, or the method chosen
DialogChoices == {"cancel", "steam", "browser"}

\* browser_login(): the cookie read from the browser, or None
BrowserOutcomes == {None, Ok(Token_abc123)}

\* get_user_from_cookie(cookie): None, or the user the endpoint names
UserOutcomes == {None} \cup {Ok(u) : u \in UserIds}

\* the nested calls of main() (line 1441, line 1487) that a run makes at most
MaxNesting == 1

\* the refreshes made from the selector in a run
MaxRefreshes == 1

Running == [running |-> TRUE]

\* main ends: as a script it exits with `code`, printing `value` when it has
\* one; imported, it returns `value`, and the caller of a nested main()
\* returns None whatever the nested call returned.  ended is what the main
\* that ended came to.
Finish(f, value, code) ==
    [f EXCEPT !.pc = "done", !.ended = value,
              !.result = IF f.script THEN [exit |-> code, stdout |-> value]
                         ELSE IF f.nested > 0 THEN None ELSE value]

\* sys.exit(code) where main does not ask how it was started: get_user_session
\* turns SystemExit into None
SysExit(f, code) ==
    [f EXCEPT !.pc = "done",
              !.result = IF f.script THEN [exit |-> code, stdout |-> None] ELSE None]

\* lines 1506-1509 and 1328-1331: the login of `method`; steam and browser
\* are what steam_login() and browser_login() return
Login(method, steam, browser) ==
    IF method = "steam" THEN [cookie |-> steam, log |-> <<"steam_login">>]
    ELSE IF method = "browser" THEN [cookie |-> browser, log |-> <<"browser_login">>]
    ELSE [cookie |-> None, log |-> <<>>]

InitLogin ==
    /\ \E sessions \in [UserIds -> SessionStates], script \in BOOLEAN, steam \in SteamStates :
        flow = [op |-> "main", of |-> "none",
                pc |-> IF \E u \in UserIds : sessions[u] # NoSession
                       THEN "selector" ELSE "step2",
                sessions |-> sessions, script |-> script, steam |-> steam,
                add_new |-> FALSE, method |-> "none", cookie |-> None, log |-> <<>>,
                refreshes |-> 0, nested |-> 0, ended |-> None, result |-> Running]
    /\ pc = "login"
    /\ KEYRING_AVAILABLE = FALSE
    /\ machine = NotCalled
    /\ keyring = {}
    /\ sessions_file = NotCalled
    /\ call = NotCalled
    /\ ret = NotCalled
    /\ gcm = NotCalled
    /\ scan = NotCalled
    /\ check = NotCalled
    /\ launcher = NotCalled

LoginUnchanged ==
    UNCHANGED <<KEYRING_AVAILABLE, machine, keyring, sessions_file, call, ret, pc, gcm,
                scan, check, launcher>>

\* lines 1264-1270: the selector is cancelled
SelectorCancel ==
    /\ flow.pc = "selector"
    /\ flow' = Finish(flow, None, 0)
    /\ LoginUnchanged

\* lines 1274-1278: 'new_session'
SelectorNewSession ==
    /\ flow.pc = "selector"
    /\ flow' = [flow EXCEPT !.add_new = TRUE, !.pc = "step2"]
    /\ LoginUnchanged

\* lines 1280-1376: 'refresh_sessions'
SelectorRefresh ==
    /\ flow.pc = "selector"
    /\ flow.refreshes < MaxRefreshes
    /\ \E steam \in {steam_login(flow.steam)} :
       \E selected \in {None} \cup {Ok(u) : u \in valid_sessions(flow) \cup expired_sessions(flow)},
          choice \in DialogChoices, browser \in BrowserOutcomes, user \in UserOutcomes :
        LET counted == [flow EXCEPT !.refreshes = @ + 1]
            saved == flow.sessions[selected.ok].method
            renewal_method == IF saved = "unknown" THEN choice ELSE saved
            login == Login(renewal_method, steam, browser)
            tried == [counted EXCEPT !.log = @ \o login.log]
        IN  IF selected = None THEN flow' = counted
            ELSE IF saved = "unknown" /\ choice = "cancel" THEN flow' = counted
            ELSE IF login.cookie # None /\ user = selected THEN
                flow' = [tried EXCEPT
                            !.sessions[selected.ok] =
                                [state |-> "valid", method |-> renewal_method]]
            ELSE flow' = tried
    /\ LoginUnchanged

\* lines 1378-1410: 'use_session'
SelectorUseSession ==
    /\ flow.pc = "selector"
    /\ \E selected_user_id \in valid_sessions(flow) \cup expired_sessions(flow) :
        flow' = IF selected_user_id \in valid_sessions(flow)
                THEN Finish(flow, Ok(selected_user_id), 0)
                ELSE SysExit(flow, 1)
    /\ LoginUnchanged

\* lines 1417-1419: any other selector result
SelectorInvalid ==
    /\ flow.pc = "selector"
    /\ flow' = SysExit(flow, 1)
    /\ LoginUnchanged

\* lines 1421-1500, STEP 2: the login method
DetermineMethod ==
    /\ flow.pc = "step2"
    /\ \E choice \in DialogChoices :
        LET expired == expired_sessions(flow)
            renew == ~flow.add_new /\ Cardinality(expired) = 1
            cancelled == IF valid_sessions(flow) # {}
                         THEN [flow EXCEPT !.nested = @ + 1, !.pc = "selector",
                                           !.add_new = FALSE, !.method = "none"]
                         ELSE Finish(flow, None, 0)
        IN  IF renew THEN
                flow' = [flow EXCEPT !.pc = "step3",
                            !.method = flow.sessions[CHOOSE u \in expired : TRUE].method]
            ELSE IF choice = "cancel" THEN
                /\ valid_sessions(flow) # {} => flow.nested < MaxNesting
                /\ flow' = cancelled
            ELSE flow' = [flow EXCEPT !.pc = "step3", !.method = choice]
    /\ LoginUnchanged

\* lines 1502-1523, STEP 3: the login is executed
ExecuteLogin ==
    /\ flow.pc = "step3"
    /\ \E steam \in {IF flow.method = "steam" THEN steam_login(flow.steam) ELSE None} :
       \E browser \in BrowserOutcomes :
        LET login == Login(flow.method, steam, browser)
            tried == [flow EXCEPT !.log = @ \o login.log]
        IN  flow' = IF login.cookie = None THEN Finish(tried, None, 1)
                    ELSE [tried EXCEPT !.pc = "step5", !.cookie = login.cookie]
    /\ LoginUnchanged

\* lines 1525-1580: the user of the cookie is asked for, the session saved
SaveAndReturn ==
    /\ flow.pc = "step5"
    /\ \E user \in UserOutcomes :
        flow' = IF user = None THEN Finish(flow, None, 1)
                ELSE Finish([flow EXCEPT !.sessions[user.ok] =
                                 [state |-> "valid", method |-> flow.method]], user, 0)
    /\ LoginUnchanged

NextLogin ==
    \/ SelectorCancel
    \/ SelectorNewSession
    \/ SelectorRefresh
    \/ SelectorUseSession
    \/ SelectorInvalid
    \/ DetermineMethod
    \/ ExecuteLogin
    \/ SaveAndReturn

SpecLogin == InitLogin /\ [][NextLogin]_vars

-----------------------------------------------------------------------------
(* Claims about the login flow *)

\* the Steam files are there and the key of LocalPrefs.json cannot be unwrapped
UnwrapFails(f) ==
    f.steam.cookie_db /\ f.steam.prefs_file /\ f.steam.env.prefs = "unwrap_fails"

\* C10: when the key unwrap fails during a Steam extraction, the extraction
\* is aborted without retry and the login flow falls back to browser login
\* instead of ending with a failure: the step that executes a Steam login
\* whose key unwrap fails leaves the flow running, with a browser login made.
C10_FallsBackToBrowser ==
    [][(flow.op = "main" /\ flow.pc = "step3" /\ flow.method = "steam" /\ UnwrapFails(flow))
           => /\ flow'.pc # "done"
              /\ \E i \in 1..Len(flow'.log) : flow'.log[i] = "browser_login"]_vars

\* C15: get_user_session returns the user id whenever the login flow ends
\* in success (a valid session picked in the selector, or a login whose
\* cookie was validated), also when the user first cancelled the login
\* dialog and was sent back to the session selector.
C15_SuccessReturnsUserId ==
    (flow.op = "main" /\ flow.pc = "done" /\ ~flow.script /\ flow.ended # None)
        => flow.result = flow.ended

-----------------------------------------------------------------------------
(* start.py: start_server, show_settings_dialog *)

\* str(value) of a str or an int
str(value) == IF value.t = "string" THEN value.s ELSE ToString(value.n)

\* the settings handed to start_server: load_settings() or the settings dialog
StartSettings ==
    {JsonObject({<<"port", JsonNumber(12345)>>, <<"host", JsonString(host)>>} \cup debug) :
        host \in {"127.0.0.1", "0.0.0.0"},
        debug \in {{}, {<<"debugMode", JsonNull>>}} \cup
                  {{<<"debugMode", JsonBool(b)>>} : b \in BOOLEAN}}

\* prepare_session(): the user id it returns and the cookie it left,
\* encrypted, in sessions.json
PreparedSessions ==
    {[user_id |-> JsonNull, cookie |-> ""], [user_id |-> JsonString(""), cookie |-> ""],
     [user_id |-> JsonNumber(0), cookie |-> ""],
     [user_id |-> JsonString("1234567"), cookie |-> "abc123"],
     [user_id |-> JsonNumber(7654321), cookie |-> "abc%3D%3D"]}

\* os.environ of the launcher
PlainEnviron == {<<"PATH", "C:/Windows">>}

Environs ==
    {PlainEnviron,
     PlainEnviron \cup {<<"SELECTED_USER_ID", "42">>, <<"DEBUG_MODE", "true">>}}

\* env[name] = value
SetEnv(env, name, value) == {e \in env : e[1] # name} \cup {<<name, value>>}

\* what can raise between the session and the spawn: writing settings.json,
\* the embedded server executable missing, Popen
StartFailures == {"none", "settings_write", "exe_missing", "popen"}

\* show_settings_dialog(error_message) with the window already open: it is
\* lifted, or found destroyed and forgotten
LiftOutcomes == {"lifted", "destroyed"}

\* lines 777-828: the settings dialog is refused while the server is
\* starting, lifted when it is open, and created otherwise
show_settings_dialog(l, error_message, lift) ==
    IF l.starting THEN l
    ELSE IF l.settings_window /\ lift = "lifted" THEN l
    ELSE [l EXCEPT !.settings_window = TRUE,
                   !.dialogs = @ \cup {[dialog |-> "settings", message |-> error_message]}]

PortInUseMessage == "Port is already in use!"

\* the environment with DEBUG_MODE left as the launcher has it
server_env_keeping_debug_mode(environ, user_id, settings) ==
    SetEnv(environ, "SELECTED_USER_ID", str(user_id))

\* the environment start_server gives the server
server_env(environ, user_id, settings) ==
    SetEnv(SetEnv(environ, "SELECTED_USER_ID", str(user_id)),
           "DEBUG_MODE",
           IF Truthy(dict_get(settings, "debugMode", JsonBool(FALSE)).ok)
           THEN "true" ELSE "false")

\* start_server(settings) up to its return or, after the spawn, up to the
\* loading dialog it then waits in.  `in` is what the call meets.
start_server(l, settings, in) ==
    LET called == [l EXCEPT !.dialogs = {}, !.spawn = None, !.refused = FALSE,
                            !.last = [settings |-> settings, in |-> in, result |-> "False"]]
        begun == [called EXCEPT !.starting = TRUE]
        failed(state) == [state EXCEPT !.starting = FALSE]
    IN  IF l.starting THEN [l EXCEPT !.refused = TRUE]
        ELSE IF in.port_in_use
        THEN failed(show_settings_dialog(begun, PortInUseMessage, in.lift))
        ELSE IF ~Truthy(in.session.user_id) THEN failed(begun)
        ELSE IF in.failure # "none"
        THEN failed([begun EXCEPT
                        !.dialogs = @ \cup {[dialog |-> "error", message |-> in.failure]}])
        ELSE [begun EXCEPT
                 !.server_process = "running",
                 !.spawn = Ok(server_env(in.environ, in.session.user_id, settings)),
                 !.pid_file = IF in.pid_write_fails THEN @ ELSE "server",
                 !.pc = "loading",
                 !.last.result = "waiting"]

\* what a call meets; what the path taken does not look at is fixed
StartInput(port_in_use, session, failure, environ, lift, pid_write_fails) ==
    [port_in_use |-> port_in_use, session |-> session, failure |-> failure,
     environ |-> environ, lift |-> lift, pid_write_fails |-> pid_write_fails]

NoSessionPrepared == [user_id |-> JsonNull, cookie |-> ""]

StartInputs ==
    {StartInput(TRUE, NoSessionPrepared, "none", PlainEnviron, lift, FALSE) :
        lift \in LiftOutcomes}
    \cup {StartInput(FALSE, session, "none", PlainEnviron, "lifted", FALSE) :
            session \in {p \in PreparedSessions : ~Truthy(p.user_id)}}
    \cup {StartInput(FALSE, session, failure, PlainEnviron, "lifted", FALSE) :
            session \in {p \in PreparedSessions : Truthy(p.user_id)},
            failure \in StartFailures \ {"none"}}
    \cup {StartInput(FALSE, session, "none", environ, "lifted", pid_write_fails) :
            session \in {p \in PreparedSessions : Truthy(p.user_id)},
            environ \in Environs, pid_write_fails \in BOOLEAN}

\* the helper module's variables while start.py is looked at
StartIdle ==
    /\ KEYRING_AVAILABLE = FALSE
    /\ machine = NotCalled
    /\ keyring = {}
    /\ sessions_file = NotCalled
    /\ call = NotCalled
    /\ ret = NotCalled
    /\ pc = "start"
    /\ gcm = NotCalled
    /\ scan = NotCalled
    /\ check = NotCalled
    /\ flow = NotCalled

InitStart ==
    /\ launcher = [op |-> "start_server", of |-> "none", starting |-> FALSE,
                   settings_window |-> FALSE, server_process |-> "none",
                   pid_file |-> "none", pc |-> "idle", dialogs |-> {}, spawn |-> None,
                   refused |-> FALSE, last |-> [result |-> "none"]]
    /\ StartIdle

StartUnchanged ==
    UNCHANGED <<KEYRING_AVAILABLE, machine, keyring, sessions_file, call, ret, pc, gcm,
                scan, check, flow>>

\* start_server(settings): from main's background thread, from a restart
StartServer ==
    /\ \E settings \in StartSettings, in \in StartInputs :
        launcher' = start_server(launcher, settings, in)
    /\ StartUnchanged

\* lines 575-585: the loading dialog is closed, start_server returns True
LoadingDialogClosed ==
    /\ launcher.pc = "loading"
    /\ launcher' = [launcher EXCEPT !.pc = "idle", !.starting = FALSE,
                                    !.last.result = "True"]
    /\ StartUnchanged

\* on_settings: the tray's Settings entry
OnSettings ==
    /\ \E lift \in LiftOutcomes :
        launcher' = show_settings_dialog(launcher, "", lift)
    /\ StartUnchanged

\* the settings window is closed
SettingsClosed ==
    /\ launcher.settings_window
    /\ launcher' = [launcher EXCEPT !.settings_window = FALSE]
    /\ StartUnchanged

NextStart ==
    \/ StartServer
    \/ LoadingDialogClosed
    \/ OnSettings
    \/ SettingsClosed

SpecStart == InitStart /\ [][NextStart]_vars

-----------------------------------------------------------------------------
(* Claims about start_server *)

\* C16: when start_server finds the configured port in use, the settings
\* dialog carrying the error message is shown to the user before
\* start_server returns False.
C16_PortErrorShown ==
    (launcher.op = "start_server" /\ launcher.last.result = "False"
        /\ ~launcher.starting /\ launcher.last.in.port_in_use)
        => [dialog |-> "settings", message |-> PortInUseMessage] \in launcher.dialogs

\* the values the environment holds under the name
EnvValues(env, name) == {e[2] : e \in {x \in env : x[1] = name}}

\* C17: the server is spawned only after the port check found the port
\* free and prepare_session returned a user id; its environment carries
\* SELECTED_USER_ID, the user id, and DEBUG_MODE, 'true' when the debugMode
\* setting is true and 'false' otherwise, and no variable of it holds the
\* cookie.
C17_SpawnEnvironment ==
    (launcher.op = "start_server" /\ launcher.spawn # None)
        => LET in == launcher.last.in
               settings == launcher.last.settings
               env == launcher.spawn.ok
           IN  /\ ~in.port_in_use
               /\ in.session.user_id \in {JsonString("1234567"), JsonNumber(7654321)}
               /\ EnvValues(env, "SELECTED_USER_ID") =
                      {IF in.session.user_id = JsonString("1234567")
                       THEN "1234567" ELSE "7654321"}
               /\ EnvValues(env, "DEBUG_MODE") =
                      {IF <<"debugMode", JsonBool(TRUE)>> \in settings.fields
                       THEN "true" ELSE "false"}
               /\ \A e \in env : e[2] # in.session.cookie

\* a launcher whose own environment names another user and debug mode
\* spawns the server for user 7654321 with debugMode false
C17_Witness ==
    /\ launcher.op = "start_server"
    /\ launcher.pc = "loading"
    /\ launcher.last.in.environ # PlainEnviron
    /\ <<"debugMode", JsonBool(FALSE)>> \in launcher.last.settings.fields
    /\ launcher.spawn = Ok(PlainEnviron \cup {<<"SELECTED_USER_ID", "7654321">>,
                                              <<"DEBUG_MODE", "false">>})

-----------------------------------------------------------------------------
(* start.py: health_check_callback.  Time is counted in ticks of 500 ms. *)

\* timeout = 30: the seconds the server is given to become ready
timeout == 30

\* requests.get(..., timeout=2): the seconds a poll may wait
RequestTimeout == 2

\* time.sleep(0.5): the ticks in a second
TicksPerSecond == 2

\* what a poll of /health meets, and the ticks it takes.  A body that is no
\* JSON makes response.json() raise requests' JSONDecodeError, a
\* RequestException, or with older releases of requests a ValueError.
HealthBodies ==
    {[json |-> TRUE, data |-> d] :
        d \in {JsonObject({<<"ready", JsonBool(b)>>}) : b \in BOOLEAN}
              \cup {JsonObject({}), JsonObject({<<"ready", JsonNull>>}),
                    JsonObject({<<"ready", JsonString("yes")>>}),
                    JsonArray(<<>>), JsonString("ready")}}
    \cup {[json |-> FALSE, raises |-> e] : e \in {"RequestException", "ValueError"}}

HealthPolls ==
    {[response |-> FALSE, exc |-> "ConnectionError", ticks |-> 0],
     [response |-> FALSE, exc |-> "Timeout", ticks |-> RequestTimeout * TicksPerSecond]}
    \cup {[response |-> TRUE, status_code |-> 200, body |-> b, ticks |-> t] :
            b \in HealthBodies, t \in {0, 1}}
    \cup {[response |-> TRUE, status_code |-> c, body |-> [json |-> FALSE, raises |-> "ValueError"],
           ticks |-> 0] : c \in {404, 503}}

\* the poll that takes any answer of status 200 for readiness
health_poll_any_200(poll) ==
    IF ~poll.response THEN "retry"
    ELSE IF poll.status_code = 200 THEN "ready"
    ELSE "retry"

\* lines 545-562, one poll: "ready" (return True), "retry" (go on to the
\* sleep) or "error" (an exception that leaves the loop)
health_poll(poll) ==
    IF ~poll.response THEN "retry"
    ELSE IF poll.status_code # 200 THEN "retry"
    ELSE IF ~poll.body.json
    THEN (IF poll.body.raises = "RequestException" THEN "retry" ELSE "error")
    ELSE LET ready == dict_get(poll.body.data, "ready", JsonNull)
         IN  IF IsRaise(ready) THEN "error"
             ELSE IF Truthy(ready.ok) THEN "ready"
             ELSE "retry"

\* lines 507-565, one turn of `while True` of the check h; exited is what
\* server_process.poll() shows
health_check_iteration(h, exited, poll) ==
    IF h.elapsed > timeout * TicksPerSecond
    THEN [h EXCEPT !.pc = "done", !.result = "False", !.reason = "timeout"]
    ELSE IF exited
    THEN [h EXCEPT !.pc = "done", !.result = "False", !.reason = "crashed",
                   !.exited = TRUE]
    ELSE LET polled == [h EXCEPT !.poll = Ok(poll), !.polls = @ + 1,
                                 !.elapsed = @ + poll.ticks]
         IN  IF health_poll(poll) = "ready"
             THEN [polled EXCEPT !.pc = "done", !.result = "True", !.reason = "ready"]
             ELSE IF health_poll(poll) = "error"
             THEN [polled EXCEPT !.pc = "done", !.result = "False", !.reason = "error"]
             ELSE [polled EXCEPT !.elapsed = @ + 1]

InitHealth ==
    /\ launcher = [op |-> "health_check_callback", of |-> "none", pc |-> "polling",
                   elapsed |-> 0, exited |-> FALSE, poll |-> None, polls |-> 0,
                   result |-> "none", reason |-> "none"]
    /\ StartIdle

\* one turn of the loop of health_check_callback
HealthCheckIteration ==
    /\ launcher.op = "health_check_callback"
    /\ launcher.pc = "polling"
    /\ \E exited \in BOOLEAN, poll \in HealthPolls :
        launcher' = health_check_iteration(launcher, exited, poll)
    /\ StartUnchanged

NextHealth == HealthCheckIteration

\* the thread of the health check keeps running
SpecHealth == InitHealth /\ [][NextHealth]_vars /\ WF_vars(NextHealth)

-----------------------------------------------------------------------------
(* Claims about health_check_callback *)

HealthDone == launcher.op = "health_check_callback" /\ launcher.pc = "done"

\* the last poll was answered 200 with a JSON object whose ready is truthy
AnsweredReady(h) ==
    /\ h.poll # None
    /\ h.poll.ok.response
    /\ h.poll.ok.status_code = 200
    /\ h.poll.ok.body.json
    /\ h.poll.ok.body.data \in {JsonObject({<<"ready", JsonBool(TRUE)>>}),
                                 JsonObject({<<"ready", JsonString("yes")>>})}

\* the last poll raised an exception that is not one of requests
PollBroke(h) ==
    /\ h.poll # None
    /\ h.poll.ok.response
    /\ h.poll.ok.status_code = 200
    /\ \/ ~h.poll.ok.body.json /\ h.poll.ok.body.raises = "ValueError"
       \/ h.poll.ok.body.json /\ h.poll.ok.body.data.t # "object"

\* C18 as stated: the check returns False only once 30 seconds have passed
\* or the server process has exited; no poll ends it by itself.
C18_Original ==
    (HealthDone /\ launcher.result = "False")
        => launcher.elapsed > timeout * TicksPerSecond \/ launcher.exited

\* what the check has returned, and why
HealthReturns ==
    HealthDone
        => /\ launcher.result \in {"True", "False"}
           /\ launcher.result = "True" => AnsweredReady(launcher)
           /\ launcher.result = "False"
                => \/ launcher.elapsed > timeout * TicksPerSecond
                   \/ launcher.exited
                   \/ PollBroke(launcher)

\* a poll that is retried is followed by the sleep of one tick, and took no
\* longer than the request's timeout
HealthRetries ==
    (launcher.op = "health_check_callback" /\ launcher'.pc = "polling")
        => /\ launcher'.elapsed > launcher.elapsed
           /\ launcher'.elapsed <= launcher.elapsed + RequestTimeout * TicksPerSecond + 1
           /\ launcher'.polls = launcher.polls + 1

\* C18: the health check always ends; it returns True only after a 200
\* answer whose JSON body has a truthy ready flag, and False once 30
\* seconds have passed, once the server process has exited, or when a poll
\* raised an exception that is not a requests exception (a 200 answer whose
\* body is JSON but no object); polls that are refused, time out, answer
\* another status or are not ready are retried after a sleep of 500 ms.
C18_HealthCheckEnds ==
    /\ <>HealthDone
    /\ []HealthReturns
    /\ [][HealthRetries]_vars

\* the server was polled for more than 30 seconds and never ready: False
C18_Witness ==
    /\ HealthDone
    /\ launcher.result = "False"
    /\ launcher.reason = "timeout"
    /\ launcher.polls > 10
    /\ ~launcher.exited

-----------------------------------------------------------------------------
(* start.py: kill_server_from_pid_file, stop_server *)

\* what the steps of the kill meet.  handle_pid: reading server_process.pid;
\* read: reading the PID file; lookup: psutil.Process(pid); children:
\* process.children(); terminate, child_terminate, kill: the signals; wait:
\* psutil.wait_procs; unlink: PID_FILE.unlink() ("denied": the file stays)
KillOutcomes ==
    [handle_pid : {"ok", "AttributeError"},
     read : {"ok", "OSError"},
     lookup : {"ok", "NoSuchProcess", "AccessDenied"},
     children : {"ok", "AccessDenied"},
     terminate : {"ok", "NoSuchProcess"},
     child_terminate : {"ok", "NoSuchProcess", "AccessDenied"},
     wait : {"gone", "alive", "TimeoutExpired"},
     kill : {"ok", "NoSuchProcess", "AccessDenied"},
     unlink : {"ok", "denied"},
     handle_kill : {"ok", "OSError"}]

Step(step, outcome) == [step |-> step, outcome |-> outcome]

\* the steps of a try body up to and with the first that raises; swallowed
\* are the outcomes its own except clause passes over
RECURSIVE RunSteps(_, _)
RunSteps(steps, swallowed) ==
    IF steps = <<>> THEN [log |-> <<>>, raised |-> "none"]
    ELSE IF steps[1].outcome \in {"ok", "gone", "alive"} \cup swallowed[steps[1].step]
    THEN LET rest == RunSteps(Tail(steps), swallowed)
         IN  [log |-> <<steps[1]>> \o rest.log, raised |-> rest.raised]
    ELSE [log |-> <<steps[1]>>, raised |-> steps[1].outcome]

\* lines 623-650: the body of the try that kills the process and its child
kill_steps(in) ==
    <<Step("Process", in.lookup), Step("children", in.children),
      Step("terminate", in.terminate), Step("child.terminate", in.child_terminate),
      Step("wait_procs", in.wait)>>
    \o (IF in.wait = "alive" THEN <<Step("kill", in.kill), Step("wait_procs", "gone")>>
        ELSE <<>>)

\* except psutil.NoSuchProcess: pass around child.terminate() and p.kill()
KillSwallowed ==
    [step \in {"Process", "children", "terminate", "wait_procs"} |-> {}]
    @@ [step \in {"child.terminate", "kill"} |-> {"NoSuchProcess"}]

\* the exceptions the except clauses of lines 656-664 catch: psutil's
\* NoSuchProcess and TimeoutExpired by name, the others as Exception
CaughtByKill == {"NoSuchProcess", "TimeoutExpired", "AccessDenied", "OSError"}

\* PID_FILE.unlink() in try/except: the file is gone unless the unlink is denied
unlink_pid_file(pid_file, in) ==
    IF pid_file # "none" /\ in.unlink = "denied" THEN pid_file ELSE "none"

\* the kill with only psutil.NoSuchProcess caught
kill_server_catching_no_such_process(l, in) ==
    LET with_handle == l.server_process = "handle"
        from_handle == with_handle /\ in.handle_pid = "ok"
        from_file == ~from_handle /\ l.pid_file = "valid" /\ in.read = "ok"
        handle == IF with_handle /\ ~from_handle THEN "none" ELSE l.server_process
        run == RunSteps(kill_steps(in), KillSwallowed)
    IN  IF ~from_handle /\ ~from_file
        THEN [server_process |-> handle, pid_file |-> unlink_pid_file(l.pid_file, in),
              raised |-> "none", log |-> <<>>, pid_from |-> "nowhere"]
        ELSE [server_process |-> IF run.raised \in {"none", "NoSuchProcess"}
                                 THEN "none" ELSE handle,
              pid_file |-> unlink_pid_file(l.pid_file, in),
              raised |-> IF run.raised = "NoSuchProcess" THEN "none" ELSE run.raised,
              log |-> run.log, pid_from |-> IF from_handle THEN "handle" ELSE "file"]

\* kill_server_from_pid_file(): the handle, the PID file, the exception that
\* leaves the function ("none": it returns) and the steps taken
kill_server_from_pid_file(l, in) ==
    LET with_handle == l.server_process = "handle"
        from_handle == with_handle /\ in.handle_pid = "ok"
        from_file == ~from_handle /\ l.pid_file = "valid" /\ in.read = "ok"
        handle == IF with_handle /\ ~from_handle THEN "none" ELSE l.server_process
        run == RunSteps(kill_steps(in), KillSwallowed)
    IN  IF ~from_handle /\ ~from_file
        THEN [server_process |-> handle, pid_file |-> unlink_pid_file(l.pid_file, in),
              raised |-> "none", log |-> <<>>, pid_from |-> "nowhere"]
        ELSE [server_process |-> IF run.raised \in {"none"} \cup CaughtByKill
                                 THEN "none" ELSE handle,
              pid_file |-> unlink_pid_file(l.pid_file, in),
              raised |-> IF run.raised \in CaughtByKill THEN "none" ELSE run.raised,
              log |-> run.log, pid_from |-> IF from_handle THEN "handle" ELSE "file"]

\* stop_server()
stop_server(l, in) ==
    LET killed == kill_server_from_pid_file(l, in)
    IN  IF killed.raised # "none" THEN killed
        ELSE IF killed.server_process # "none"
        THEN [killed EXCEPT !.server_process = "none",
                            !.log = Append(@, Step("server_process.kill", in.handle_kill))]
        ELSE killed

InitStop ==
    /\ \E pid_file \in {"none", "valid", "garbage"} :
        launcher = [op |-> "none", of |-> "none", server_process |-> "none",
                    pid_file |-> pid_file, raised |-> "none", log |-> <<>>]
    /\ StartIdle

\* start_server spawned the server: the handle, and the PID file when it
\* could be written
ServerSpawned ==
    /\ launcher.server_process = "none"
    /\ \E pid_write_fails \in BOOLEAN :
        launcher' = [launcher EXCEPT !.op = "start_server", !.server_process = "handle",
                        !.pid_file = IF pid_write_fails THEN @ ELSE "valid",
                        !.raised = "none", !.log = <<>>]
    /\ StartUnchanged

\* kill_server_from_pid_file(): on Ctrl+C, at exit
KillServerFromPidFile ==
    /\ \E in \in KillOutcomes :
        \E r \in {kill_server_from_pid_file(launcher, in)} :
            launcher' = [op |-> "kill_server_from_pid_file", of |-> "none",
                         server_process |-> r.server_process, pid_file |-> r.pid_file,
                         raised |-> r.raised, log |-> r.log, pid_from |-> r.pid_from,
                         unlink |-> IF launcher.pid_file = "none" THEN "ok" ELSE in.unlink]
    /\ StartUnchanged

\* stop_server(): from restart_server, from the tray's Exit
StopServer ==
    /\ \E in \in KillOutcomes :
        \E r \in {stop_server(launcher, in)} :
            launcher' = [op |-> "stop_server", of |-> "none",
                         server_process |-> r.server_process, pid_file |-> r.pid_file,
                         raised |-> r.raised, log |-> r.log, pid_from |-> r.pid_from,
                         unlink |-> IF launcher.pid_file = "none" THEN "ok" ELSE in.unlink]
    /\ StartUnchanged

NextStop ==
    \/ ServerSpawned
    \/ KillServerFromPidFile
    \/ StopServer

SpecStop == InitStop /\ [][NextStop]_vars

-----------------------------------------------------------------------------
(* Claims about the kill routines *)

KillReturned == launcher.op \in {"kill_server_from_pid_file", "stop_server"}

\* C19 as stated: neither routine raises, and after either the server
\* handle is None and the PID file has been removed.
C19_Original ==
    KillReturned
        => /\ launcher.raised = "none"
           /\ launcher.server_process = "none"
           /\ launcher.pid_file = "none"

\* C19: kill_server_from_pid_file and stop_server never raise, whatever the
\* lookup, terminate, wait and kill steps and the reading of the PID file
\* meet; after either returns the server handle is None, and the PID file
\* has been removed unless removing it failed.
C19_KillNeverRaises ==
    KillReturned
        => /\ launcher.raised = "none"
           /\ launcher.server_process = "none"
           /\ launcher.unlink = "ok" => launcher.pid_file = "none"

\* the child cannot be signalled (access denied): the kill ends there, the
\* handle is dropped and the PID file removed
C19_Witness ==
    /\ launcher.op = "kill_server_from_pid_file"
    /\ launcher.log = <<Step("Process", "ok"), Step("children", "ok"),
                        Step("terminate", "ok"), Step("child.terminate", "AccessDenied")>>
    /\ launcher.raised = "none"
    /\ launcher.server_process = "none"
    /\ launcher.pid_file = "none"

-----------------------------------------------------------------------------
(* start.py: backup and restore of the user data *)

\* 'userdata'
Str_userdata == <<117, 115, 101, 114, 100, 97, 116, 97>>

\* 'backup_metadata.json'
Str_backup_metadata_json == <<98, 97, 99, 107, 117, 112, 95, 109, 101, 116, 97, 100, 97, 116, 97, 46, 106, 115, 111, 110>>

\* 'version'
Str_version == <<118, 101, 114, 115, 105, 111, 110>>

\* 'created'
Str_created == <<99, 114, 101, 97, 116, 101, 100>>

\* 'source'
Str_source == <<115, 111, 117, 114, 99, 101>>

\* 'execution_mode'
Str_execution_mode == <<101, 120, 101, 99, 117, 116, 105, 111, 110, 95, 109, 111, 100, 101>>

\* '1.0'
Str_1_0 == <<49, 46, 48>>

\* 'ShippingManagerCoPilot'
Str_ShippingManagerCoPilot == <<83, 104, 105, 112, 112, 105, 110, 103, 77, 97, 110, 97, 103, 101, 114, 67, 111, 80, 105, 108, 111, 116>>

\* 'exe'
Str_exe == <<101, 120, 101>>

\* 'script'
Str_script == <<115, 99, 114, 105, 112, 116>>

\* 'settings'
Str_settings == <<115, 101, 116, 116, 105, 110, 103, 115>>

\* 'settings.json'
Str_settings_json == <<115, 101, 116, 116, 105, 110, 103, 115, 46, 106, 115, 111, 110>>

\* 'server.log'
Str_server_log == <<115, 101, 114, 118, 101, 114, 46, 108, 111, 103>>

\* 'logs'
Str_logs == <<108, 111, 103, 115>>

\* '2025-01-01T00:00:00'
Str_now == <<50, 48, 50, 53, 45, 48, 49, 45, 48, 49, 84, 48, 48, 58, 48, 48, 58, 48, 48>>

\* 'OtherTool'
Str_OtherTool == <<79, 116, 104, 101, 114, 84, 111, 111, 108>>

\* 'myuserdata'
Str_myuserdata == <<109, 121, 117, 115, 101, 114, 100, 97, 116, 97>>

\* 'readme.txt'
Str_readme_txt == <<114, 101, 97, 100, 109, 101, 46, 116, 120, 116>>

\* 'AppData'
Str_AppData == <<65, 112, 112, 68, 97, 116, 97>>

\* 'Local'
Str_Local == <<76, 111, 99, 97, 108>>

\* 'app'
Str_app == <<97, 112, 112>>

\* sep.join(parts)
Join(parts, sep) ==
    Concat([i \in 1..Len(parts) |-> IF i = 1 THEN parts[i] ELSE sep \o parts[i]])

\* needle in text
Contains(text, needle) ==
    \E i \in 0..(Len(text) - Len(needle)) : SubSeq(text, i + 1, i + Len(needle)) = needle

\* the k-th smallest member of a set of positions
kth(S, k) == CHOOSE i \in S : Cardinality({j \in S : j < i}) = k - 1

\* json's string escapes, for text of printable ASCII: '"' and '\' get a
\* backslash
json_escape(s) ==
    Concat([i \in 1..Len(s) |-> IF s[i] \in {34, 92} THEN <<92, s[i]>> ELSE <<s[i]>>])

\* json.dumps(obj, indent=2) of a dict of str to str, given as its items in
\* insertion order
json_dumps(items) ==
    LET n == Len(items)
        line(i) == <<32, 32, 34>> \o json_escape(items[i][1]) \o <<34, 58, 32, 34>>
                       \o json_escape(items[i][2]) \o <<34>>
                       \o (IF i < n THEN <<44, 10>> ELSE <<10>>)
    IN  IF n = 0 THEN <<123, 125>>
        ELSE <<123, 10>> \o Concat([i \in 1..n |-> line(i)]) \o <<125>>

RECURSIVE json_unescape(_)
json_unescape(s) ==
    IF s = <<>> THEN <<>>
    ELSE IF s[1] = 92 /\ Len(s) >= 2 THEN <<s[2]>> \o json_unescape(From(s, 2))
    ELSE <<s[1]>> \o json_unescape(Tail(s))

\* the positions of the quotes that open or close a string: those not
\* preceded by an odd run of backslashes
json_quotes(text) ==
    {i \in 1..Len(text) :
        /\ text[i] = 34
        /\ Cardinality({k \in 1..(i - 1) : \A j \in (i - k)..(i - 1) : text[j] = 92}) % 2 = 0}

\* the text outside the strings without its whitespace, each string
\* standing as its opening quote
json_tokens(text, quotes) ==
    CHOOSE r \in
        {[k \in 1..Cardinality(kept) |-> text[kth(kept, k)]] :
            kept \in {{i \in 1..Len(text) :
                        /\ Cardinality({j \in quotes : j < i}) % 2 = 0
                        /\ text[i] \notin {9, 10, 13, 32}}}} : TRUE

json_object(text, quotes) ==
    LET string(k) == json_unescape(SubSeq(text, kth(quotes, 2 * k - 1) + 1,
                                          kth(quotes, 2 * k) - 1))
        pairs == Cardinality(quotes) \div 4
        grammar == <<123>> \o Concat([j \in 1..pairs |->
                                        <<34, 58, 34>> \o (IF j < pairs THEN <<44>> ELSE <<>>)])
                       \o <<125>>
    IN  IF Cardinality(quotes) % 4 # 0 \/ json_tokens(text, quotes) # grammar
        THEN Raise("JSONDecodeError")
        ELSE Ok(JsonObject({<<string(2 * j - 1), JsonString(string(2 * j))>> :
                    j \in {j \in 1..pairs : \A later \in (j + 1)..pairs :
                                               string(2 * later - 1) # string(2 * j - 1)}}))

\* json.loads(text), for the texts that are an object of strings; any other
\* text is taken to be no JSON
json_loads(text) ==
    CHOOSE r \in {json_object(text, quotes) : quotes \in {json_quotes(text)}} : TRUE

\* bytes.decode('utf-8'): ASCII bytes are their own code points
bytes_decode(b) ==
    IF \A i \in 1..Len(b) : b[i] < 128 THEN Ok(b) ELSE Utf8Decode(b)

\* what a path names: nothing, a file that is no archive, a ZIP archive
\* with its members in the order they were written
NoFile == [kind |-> "missing"]
NotZip == [kind |-> "other"]
Zip(entries) == [kind |-> "zip", entries |-> entries]

\* ZipFile.namelist()
namelist(file) == [i \in 1..Len(file.entries) |-> file.entries[i].name]

\* ZipFile.read(name): the member written last under the name
zip_read(file, name) ==
    LET at == {i \in 1..Len(file.entries) : file.entries[i].name = name}
    IN  file.entries[CHOOSE i \in at : \A j \in at : j <= i].data

\* Path.parent
parent(path) == DropTail(path, 1)

\* Path.relative_to(other), other being a parent of path
relative_to(path, other) == From(path, Len(other))

\* get_userdata_path(): the path as its components below the drive
get_userdata_path(IS_FROZEN) ==
    IF IS_FROZEN THEN <<Str_AppData, Str_Local, Str_ShippingManagerCoPilot, Str_userdata>>
    ELSE <<Str_app, Str_userdata>>

\* the files below userdata, as paths relative to it
UserdataFiles == {<<Str_server_log>>, <<Str_settings, Str_settings_json>>}

\* subdirectories that hold nothing
UserdataEmptyDirs == {<<Str_logs>>}

\* the user-data directory: absent, or a tree of files and empty
\* directories in which at most one file cannot be opened for reading
UserdataContents ==
    {[exists |-> FALSE, files |-> {}, dirs |-> {}, unreadable |-> {}]}
        \cup UNION {{[exists |-> TRUE, files |-> files, dirs |-> dirs,
                       unreadable |-> unreadable] :
                        dirs \in SUBSET UserdataEmptyDirs,
                        unreadable \in {{}} \cup {{f} : f \in files}} :
                     files \in SUBSET UserdataFiles}

\* os.walk(userdata_path), top down: the files of a directory before those
\* of its subdirectories; empty directories yield no file
os_walk(userdata) ==
    IF userdata.files = {} THEN <<>>
    ELSE CHOOSE order \in [1..Cardinality(userdata.files) -> userdata.files] :
            /\ \A f \in userdata.files : \E i \in DOMAIN order : order[i] = f
            /\ \A i, j \in DOMAIN order : i < j => Len(order[i]) <= Len(order[j])

\* what the save dialog and the opening of the archive do
SaveOutcomes == {"cancelled", "chosen", "unwritable"}

\* do_backup(): the status shown and the file left at save_path
do_backup(IS_FROZEN, userdata, save, now, before) ==
    LET userdata_path == get_userdata_path(IS_FROZEN)
        metadata == << <<Str_version, Str_1_0>>, <<Str_created, now>>,
                       <<Str_source, Str_ShippingManagerCoPilot>>,
                       <<Str_execution_mode, IF IS_FROZEN THEN Str_exe ELSE Str_script>> >>
        files == os_walk(userdata)
        stop == {i \in 1..Len(files) : files[i] \in userdata.unreadable}
        added == IF stop = {} THEN files ELSE Upto(files, Least(stop) - 1)
        arcname(file) == relative_to(userdata_path \o file, parent(userdata_path))
        entries == <<[name |-> Str_backup_metadata_json,
                      data |-> Utf8Encode(json_dumps(metadata)).ok]>>
                       \o [i \in 1..Len(added) |->
                              [name |-> Join(arcname(added[i]), <<47>>), data |-> <<1>>]]
    IN  IF ~userdata.exists THEN [status |-> "not found", file |-> before]
        ELSE IF save = "cancelled" THEN [status |-> "cancelled", file |-> before]
        ELSE IF save = "unwritable" THEN [status |-> "error", file |-> before]
        ELSE [status |-> IF stop = {} THEN "created" ELSE "error", file |-> Zip(entries)]

Invalid(message) == [valid |-> FALSE, message |-> message]

\* validate_backup, from the parsed metadata on
validate_metadata(file, metadata) ==
    IF IsRaise(metadata)
    THEN Invalid(IF metadata.raised = "JSONDecodeError" THEN "corrupted metadata"
                 ELSE metadata.raised)
    ELSE IF \E f \in {Str_version, Str_created, Str_source} : ~HasKey(metadata.ok, f)
    THEN Invalid("missing metadata fields")
    ELSE IF dict_get(metadata.ok, Str_source, JsonNull)
                # Ok(JsonString(Str_ShippingManagerCoPilot))
    THEN Invalid("not a ShippingManagerCoPilot backup")
    ELSE IF ~\E i \in 1..Len(namelist(file)) :
                Contains(namelist(file)[i], Str_userdata \o <<47>>)
    THEN Invalid("no userdata folder found")
    ELSE [valid |-> TRUE, metadata |-> metadata.ok]

\* zipf.read('backup_metadata.json').decode('utf-8'), json.loads
read_metadata(file) ==
    CHOOSE r \in {IF IsRaise(text) THEN text ELSE json_loads(text.ok) :
                    text \in {bytes_decode(zip_read(file, Str_backup_metadata_json))}} : TRUE

\* validate_backup(zip_path)
validate_backup(file) ==
    IF file.kind = "missing" THEN Invalid("FileNotFoundError")
    ELSE IF file.kind # "zip" THEN Invalid("not a valid ZIP file")
    ELSE IF ~\E i \in 1..Len(namelist(file)) : namelist(file)[i] = Str_backup_metadata_json
    THEN Invalid("missing metadata file")
    ELSE CHOOSE r \in {validate_metadata(file, metadata) :
                          metadata \in {read_metadata(file)}} : TRUE

\* datetime.now().isoformat()
BackupTimes == {Str_now}

BackupMetadata(source) ==
    Utf8Encode(json_dumps(<< <<Str_version, Str_1_0>>, <<Str_created, Str_now>>,
                              <<Str_source, source>> >>)).ok

Member(name, data) == [name |-> name, data |-> data]

\* files offered to validate_backup that do_backup did not write
ForeignFiles ==
    {NoFile, NotZip,
     Zip(<<Member(Join(<<Str_userdata, Str_readme_txt>>, <<47>>), <<1>>)>>),
     Zip(<<Member(Str_backup_metadata_json, Str_readme_txt),
           Member(Join(<<Str_userdata, Str_readme_txt>>, <<47>>), <<1>>)>>),
     Zip(<<Member(Str_backup_metadata_json, <<255>>)>>),
     Zip(<<Member(Str_backup_metadata_json,
                  Utf8Encode(json_dumps(<< <<Str_version, Str_1_0>> >>)).ok)>>),
     Zip(<<Member(Str_backup_metadata_json, BackupMetadata(Str_OtherTool)),
           Member(Join(<<Str_userdata, Str_readme_txt>>, <<47>>), <<1>>)>>),
     Zip(<<Member(Str_backup_metadata_json, BackupMetadata(Str_ShippingManagerCoPilot)),
           Member(Join(<<Str_myuserdata, Str_readme_txt>>, <<47>>), <<1>>)>>),
     Zip(<<Member(Str_backup_metadata_json, BackupMetadata(Str_ShippingManagerCoPilot)),
           Member(Str_readme_txt, <<1>>)>>)}

InitBackup ==
    /\ \E IS_FROZEN \in BOOLEAN, userdata \in UserdataContents :
        launcher = [op |-> "none", of |-> "none", IS_FROZEN |-> IS_FROZEN,
                    userdata |-> userdata, status |-> "none", file |-> NoFile,
                    selected |-> "none", zip_path |-> NoFile, validation |-> None]
    /\ StartIdle

\* the Create Backup button
DoBackup ==
    /\ launcher.op = "none"
    /\ \E save \in SaveOutcomes, now \in BackupTimes :
        \E r \in {do_backup(launcher.IS_FROZEN, launcher.userdata, save, now,
                            launcher.file)} :
            launcher' = [launcher EXCEPT !.op = "do_backup", !.status = r.status,
                                         !.file = r.file]
    /\ StartUnchanged

\* the restore dialog is given the file at the path the backup was saved to
ValidateBackup ==
    /\ launcher.op = "do_backup"
    /\ \E r \in {validate_backup(launcher.file)} :
        launcher' = [launcher EXCEPT !.op = "validate_backup", !.selected = "backup",
                                     !.zip_path = launcher.file, !.validation = r]
    /\ StartUnchanged

\* the restore dialog is given another file
ValidateForeign ==
    /\ launcher.op = "none"
    /\ \E file \in ForeignFiles :
        \E r \in {validate_backup(file)} :
            launcher' = [launcher EXCEPT !.op = "validate_backup", !.selected = "foreign",
                                         !.zip_path = file, !.validation = r]
    /\ StartUnchanged

NextBackup ==
    \/ DoBackup
    \/ ValidateBackup
    \/ ValidateForeign

SpecBackup == InitBackup /\ [][NextBackup]_vars

-----------------------------------------------------------------------------
(* Claims about backup and restore *)

\* a backup that do_backup reported as created was given to validate_backup
BackupValidated ==
    /\ launcher.op = "validate_backup"
    /\ launcher.selected = "backup"
    /\ launcher.status = "created"

\* C20: whatever the user-data directory holds, an empty directory included,
\* validate_backup accepts the archive that do_backup created from it.
C20_BackupAccepted == BackupValidated => launcher.validation.valid

-----------------------------------------------------------------------------
(* start.py: the threads that start, restart and stop the server *)

\* start_server_background, on_restart's do_restart, save_and_restart's
\* do_restart, on_toggle_debug_mode, and the exit handlers (on_exit,
\* signal_handler, the KeyboardInterrupt handlers)
Threads == {"startup", "restart", "save", "toggle", "exit"}

\* the requests made from the tray and the settings window in a run
MaxRequests == 2

\* the positions of a start_server call past `if _server_starting`
PastGuard == {"set", "prepare", "spawn", "loading", "mainloop", "finally"}

\* a server is named after the thread whose Popen spawned it
InitThreads ==
    /\ launcher = [op |-> "threads", of |-> "none", starting |-> FALSE,
                   server_process |-> "none", pid_file |-> "none", alive |-> {},
                   spawned |-> {}, killed |-> {}, loading_dialog |-> "none",
                   quit |-> {}, settings_window |-> FALSE,
                   at |-> [t \in Threads |-> IF t = "startup" THEN "guard" ELSE "idle"],
                   pid |-> [t \in Threads |-> "none"],
                   result |-> [t \in Threads |-> "none"],
                   exited |-> FALSE, during |-> FALSE, earlier |-> {},
                   requests |-> 0]
    /\ StartIdle

\* a start_server call is past its guard and has not yet run its finally
StartInProgress(l) == \E t \in Threads : l.at[t] \in PastGuard

Goto(l, t, position) == [l EXCEPT !.at[t] = position]

\* a request leaves its idle position
Request(l, t, position) ==
    [l EXCEPT !.at[t] = position, !.requests = @ + 1]

CanRequest(t) ==
    /\ ~launcher.exited
    /\ launcher.at[t] = "idle"
    /\ launcher.requests < MaxRequests

\* the process with this pid is killed by thread t
kill_process(l, pid, t) ==
    IF pid \in l.alive
    THEN [l EXCEPT !.alive = @ \ {pid}, !.killed = @ \cup {<<pid, t>>}]
    ELSE l

\* on_restart: the tray's Restart starts do_restart in a thread
OnRestart ==
    /\ CanRequest("restart")
    /\ launcher' = [Request(launcher, "restart", "close") EXCEPT
                        !.during = StartInProgress(launcher), !.earlier = launcher.alive]
    /\ StartUnchanged

\* on_settings, show_settings_dialog: refused while _server_starting
OpenSettings ==
    /\ ~launcher.exited
    /\ ~launcher.starting
    /\ ~launcher.settings_window
    /\ launcher' = [launcher EXCEPT !.settings_window = TRUE]
    /\ StartUnchanged

\* save_and_restart: the settings are saved, the window is closed and
\* do_restart is started in a thread
SaveAndRestart ==
    /\ CanRequest("save")
    /\ launcher.settings_window
    /\ launcher' = [Request(launcher, "save", "kill_read") EXCEPT !.settings_window = FALSE]
    /\ StartUnchanged

\* on_toggle_debug_mode: returns at once while _server_starting
OnToggleDebugMode ==
    /\ CanRequest("toggle")
    /\ launcher' = Request(launcher, "toggle", IF launcher.starting THEN "done" ELSE "close")
    /\ StartUnchanged

\* on_exit, signal_handler, KeyboardInterrupt: kill_server_from_pid_file, then
\* os._exit
OnExit ==
    /\ CanRequest("exit")
    /\ launcher' = Request(launcher, "exit", "kill_read")
    /\ StartUnchanged

\* do_restart, on_toggle_debug_mode: the loading dialog is told to quit and
\* the settings window is closed
CloseDialogs(t) ==
    /\ ~launcher.exited
    /\ launcher.at[t] = "close"
    /\ launcher' = [Goto(launcher, t, "kill_read") EXCEPT
                        !.quit = IF launcher.loading_dialog = "none" THEN @
                                 ELSE @ \cup {launcher.loading_dialog},
                        !.loading_dialog = "none", !.settings_window = FALSE]
    /\ StartUnchanged

\* kill_server_from_pid_file: the pid of the global handle, else of the PID file
KillRead(t) ==
    /\ ~launcher.exited
    /\ launcher.at[t] = "kill_read"
    /\ launcher' = [Goto(launcher, t, "kill_done") EXCEPT
                        !.pid[t] = IF launcher.server_process # "none"
                                   THEN launcher.server_process ELSE launcher.pid_file]
    /\ StartUnchanged

\* kill_server_from_pid_file: the process is killed, server_process = None,
\* the PID file is removed
KillDone(t) ==
    /\ ~launcher.exited
    /\ launcher.at[t] = "kill_done"
    /\ launcher' = [kill_process(Goto(launcher, t,
                                      IF t = "exit" THEN "os_exit"
                                      ELSE IF t = "toggle" THEN "guard" ELSE "stop_tail"),
                                 launcher.pid[t], t)
                        EXCEPT !.server_process = "none", !.pid_file = "none",
                               !.pid[t] = "none"]
    /\ StartUnchanged

\* stop_server: `if server_process:` after kill_server_from_pid_file
StopTail(t) ==
    /\ ~launcher.exited
    /\ launcher.at[t] = "stop_tail"
    /\ launcher' = [kill_process(Goto(launcher, t, "guard"), launcher.server_process, t)
                        EXCEPT !.server_process = "none"]
    /\ StartUnchanged

\* start_server: if _server_starting: return False
Guard(t) ==
    /\ ~launcher.exited
    /\ launcher.at[t] = "guard"
    /\ launcher' = IF launcher.starting
                   THEN [Goto(launcher, t, "returned") EXCEPT !.result[t] = "False"]
                   ELSE Goto(launcher, t, "set")
    /\ StartUnchanged

\* start_server: _server_starting = True
SetStarting(t) ==
    /\ ~launcher.exited
    /\ launcher.at[t] = "set"
    /\ launcher' = [Goto(launcher, t, "prepare") EXCEPT !.starting = TRUE]
    /\ StartUnchanged

\* start_server: the port check and prepare_session
Prepare(t) ==
    /\ ~launcher.exited
    /\ launcher.at[t] = "prepare"
    /\ \E ok \in BOOLEAN :
        launcher' = IF ok THEN Goto(launcher, t, "spawn")
                    ELSE [Goto(launcher, t, "finally") EXCEPT !.result[t] = "False"]
    /\ StartUnchanged

\* start_server: subprocess.Popen and the PID file, or an exception before
\* Popen
Spawn(t) ==
    /\ ~launcher.exited
    /\ launcher.at[t] = "spawn"
    /\ \E ok \in BOOLEAN :
        launcher' = IF ok
                    THEN [Goto(launcher, t, "loading") EXCEPT
                            !.alive = @ \cup {t}, !.spawned = @ \cup {t},
                            !.server_process = t, !.pid_file = t]
                    ELSE [Goto(launcher, t, "finally") EXCEPT !.result[t] = "False"]
    /\ StartUnchanged

\* show_loading_dialog: loading_dialog = root
ShowLoadingDialog(t) ==
    /\ ~launcher.exited
    /\ launcher.at[t] = "loading"
    /\ launcher' = [Goto(launcher, t, "mainloop") EXCEPT !.loading_dialog = t]
    /\ StartUnchanged

\* root.mainloop() returns: the window was closed by the user or told to
\* quit by another thread; start_server returns True
MainloopReturns(t) ==
    /\ ~launcher.exited
    /\ launcher.at[t] = "mainloop"
    /\ launcher' = [Goto(launcher, t, "finally") EXCEPT
                        !.result[t] = "True", !.quit = @ \ {t},
                        !.loading_dialog = IF @ = t THEN "none" ELSE @]
    /\ StartUnchanged

\* health_check_callback returns False (the timeout, or the process has
\* exited): the ERROR animation ends in os._exit(1)
HealthCheckFails(t) ==
    /\ ~launcher.exited
    /\ launcher.at[t] = "mainloop"
    /\ \E reason \in {"timeout", "exited"} :
        launcher' = [launcher EXCEPT
                        !.exited = TRUE,
                        !.alive = IF reason = "exited" THEN @ \ {launcher.server_process}
                                  ELSE @]
    /\ StartUnchanged

\* start_server: finally: _server_starting = False
Finally(t) ==
    /\ ~launcher.exited
    /\ launcher.at[t] = "finally"
    /\ launcher' = [Goto(launcher, t, "returned") EXCEPT !.starting = FALSE]
    /\ StartUnchanged

\* the caller of start_server: start_server_background ends the process
\* when the call returned False
Returned(t) ==
    /\ ~launcher.exited
    /\ launcher.at[t] = "returned"
    /\ launcher' = IF t = "startup" /\ launcher.result[t] = "False"
                   THEN [launcher EXCEPT !.exited = TRUE]
                   ELSE Goto(launcher, t, "done")
    /\ StartUnchanged

\* os._exit(0) of the exit handlers
OsExit ==
    /\ ~launcher.exited
    /\ launcher.at["exit"] = "os_exit"
    /\ launcher' = [launcher EXCEPT !.exited = TRUE]
    /\ StartUnchanged

Starters == Threads \ {"exit"}

NextThreads ==
    \/ OnRestart
    \/ OpenSettings
    \/ SaveAndRestart
    \/ OnToggleDebugMode
    \/ OnExit
    \/ OsExit
    \/ \E t \in {"restart", "toggle"} : CloseDialogs(t)
    \/ \E t \in Threads \ {"startup"} : KillRead(t)
    \/ \E t \in Threads \ {"startup"} : KillDone(t)
    \/ \E t \in {"restart", "save"} : StopTail(t)
    \/ \E t \in Starters : Guard(t)
    \/ \E t \in Starters : SetStarting(t)
    \/ \E t \in Starters : Prepare(t)
    \/ \E t \in Starters : Spawn(t)
    \/ \E t \in Starters : ShowLoadingDialog(t)
    \/ \E t \in Starters : MainloopReturns(t)
    \/ \E t \in Starters : HealthCheckFails(t)
    \/ \E t \in Starters : Finally(t)
    \/ \E t \in Starters : Returned(t)

SpecThreads == InitThreads /\ [][NextThreads]_vars

-----------------------------------------------------------------------------
(* Claims about the threads *)

\* C21: at most one start_server call is past the guard at any time.
C21_MutualExclusion ==
    launcher.op = "threads" => Cardinality({t \in Threads : launcher.at[t] \in PastGuard}) <= 1

\* C22: when the launcher process has exited, no server it spawned is
\* still running.
C22_NoServerLeft == (launcher.op = "threads" /\ launcher.exited) => launcher.alive = {}

\* C23: when a do_restart that was requested during a start_server call has
\* finished, it has not killed a server that ran at the request without
\* spawning one itself.
C23_RestartKeepsServer ==
    (launcher.op = "threads" /\ launcher.at["restart"] = "done" /\ launcher.during)
        => ~ /\ \E s \in launcher.earlier : <<s, "restart">> \in launcher.killed
             /\ "restart" \notin launcher.spawned

-----------------------------------------------------------------------------
(* start.py: prepare_session *)

\* max_retries = 3: the attempts to find the record in sessions.json
max_retries == 3

\* how get_user_session ends: a fresh login that main saves, a saved
\* session picked in the selector, the selector cancelled, an exception
HelperOutcomes == {"login", "use_session", "cancelled", "error"}

\* prepare_session's verification loop over the reads of sessions.json,
\* reads[i] telling whether read i fails: the attempts made and whether the
\* record was found
verify_session(user_id, reads) ==
    LET found == {i \in 1..max_retries : user_id \in DOMAIN load_sessions(reads[i])}
    IN  [attempts |-> IF found = {} THEN max_retries ELSE Least(found),
         verified |-> found # {}]

\* what prepare_session returns for the user id of get_user_session
prepare_session(user_id, reads) ==
    IF user_id = None THEN [result |-> None, attempts |-> 0, verified |-> FALSE]
    ELSE [result |-> user_id] @@ verify_session(user_id.ok, reads)

InitPrepare ==
    /\ KEYRING_AVAILABLE \in BOOLEAN
    /\ machine \in StoreMachines
    /\ keyring = {}
    /\ sessions_file = [valid |-> TRUE, data |-> <<>>]
    /\ call = NotCalled
    /\ ret = NotCalled
    /\ pc = "prepare"
    /\ gcm = NotCalled
    /\ scan = NotCalled
    /\ check = NotCalled
    /\ flow = NotCalled
    /\ launcher = [op |-> "none", of |-> "none", at |-> "idle", user_id |-> None,
                   helper |-> "none", result |-> None, attempts |-> 0,
                   verified |-> FALSE]

\* get_session_windows.get_user_session(): main saves the session of a fresh
\* login with save_session and returns its user id whether or not the
\* document was written; a saved session is returned as it was selected
GetUserSession ==
    /\ launcher.at = "idle"
    /\ \/ \E user_id \in UserIds, cookie \in StoreTokens, login_method \in LoginMethods,
             faults \in ReachedFaults :
            \E r \in {save_session(user_id, cookie, "Acme", login_method, faults)} :
                /\ sessions_file' = r.sessions_file
                /\ keyring' = r.keyring
                /\ launcher' = [launcher EXCEPT !.op = "get_user_session",
                                    !.at = "verify", !.helper = "login",
                                    !.user_id = Ok(user_id)]
       \/ /\ \E outcome \in HelperOutcomes \ {"login"} :
                \E user_id \in IF outcome = "use_session"
                               THEN {Ok(u) : u \in StoredUserIds(sessions_file)}
                               ELSE {None} :
                    launcher' = [launcher EXCEPT !.op = "get_user_session",
                                    !.at = "verify", !.helper = outcome,
                                    !.user_id = user_id]
          /\ UNCHANGED <<sessions_file, keyring>>
    /\ UNCHANGED <<KEYRING_AVAILABLE, machine, call, ret, pc, gcm, scan, check, flow>>

\* prepare_session after the helper returned: the verification and the
\* return
PrepareSession ==
    /\ launcher.at = "verify"
    /\ \E reads \in [1..max_retries -> BOOLEAN] :
        \E r \in {prepare_session(launcher.user_id, reads)} :
            launcher' = [launcher EXCEPT !.op = "prepare_session", !.at = "idle",
                            !.result = r.result, !.attempts = r.attempts,
                            !.verified = r.verified]
    /\ UNCHANGED <<KEYRING_AVAILABLE, machine, keyring, sessions_file, call, ret, pc, gcm,
                   scan, check, flow>>

NextPrepare ==
    \/ GetUserSession
    \/ PrepareSession

SpecPrepare == InitPrepare /\ [][NextPrepare]_vars

-----------------------------------------------------------------------------
(* Claims about prepare_session *)

\* C24: whenever prepare_session returns a user id, the session document
\* holds a record under that user id.
C24_SessionVerified ==
    (launcher.op = "prepare_session" /\ launcher.result # None)
        => launcher.result.ok \in StoredUserIds(sessions_file)

-----------------------------------------------------------------------------
(* MAIN: the session lists of the selector and the refresh of a session *)

RECURSIVE Decimal(_)
\* str(n) of an int n >= 0, as text
Decimal(n) == IF n < 10 THEN <<48 + n>> ELSE Decimal(n \div 10) \o <<48 + (n % 10)>>

\* str(value) of a user id of the endpoint
str_id(value) ==
    IF value.t = "number" THEN Decimal(value.n) ELSE <<78, 111, 110, 101>>

\* what the endpoint does with the cookie of a user: the session is live,
\* it has expired, the request times out
AnswerKinds == {"live", "expired", "timeout"}

\* the response to a cookie of the user with this id
AnswerFor(kind, id) ==
    IF kind = "live" THEN
        [response |-> TRUE, status_code |-> 200,
         body |-> [json |-> TRUE,
                   data |-> JsonObject({<<"user", JsonObject({<<"id", JsonNumber(id)>>,
                                                              <<"company_name",
                                                                JsonString("Acme")>>})>>})]]
    ELSE IF kind = "expired" THEN
        [response |-> TRUE, status_code |-> 401,
         body |-> [json |-> TRUE,
                   data |-> JsonObject({<<"error", JsonString("unauthorized")>>})]]
    ELSE [response |-> FALSE, exc |-> "Timeout"]

\* int(user_id) of the user ids '1' and '2'
IdOf(user_id) == user_id[1] - 48

\* the cookie fields of the stored records of a user: a legacy plaintext
\* token, the reference to the credential store, the 'v1:' blob of 'abc123'
\* on 'HOSTbobWindows', a 'v1:' value that is no blob
SessionCookies(user_id) ==
    {<<97>>, KEYRING_PREFIX \o account_name(user_id),
     <<118, 49, 58, 99, 53, 102, 106, 80, 107, 120, 98>>, <<118, 49, 58, 33, 33>>}

\* the documents: a record of user '1' of every kind, alone or with a record
\* of user '2' that is a plaintext token or a 'v1:' value that is no blob
SessionDocuments ==
    {d \in UNION {[ids -> [cookie : UNION {SessionCookies(u) : u \in UserIds},
                           company_name : {"Acme"},
                           login_method : {"steam", "unknown"}]] :
                  ids \in {{<<49>>}, UserIds}} :
        /\ d[<<49>>].cookie \in SessionCookies(<<49>>)
        /\ <<50>> \in DOMAIN d => /\ d[<<50>>].cookie \in {<<97>>, <<118, 49, 58, 33, 33>>}
                                  /\ d[<<50>>].login_method = "steam"}

\* `if not plaintext_cookie` after decrypt_cookie
Undecryptable(cookie, user_id) ==
    /\ is_encrypted(cookie)
    /\ decrypt_cookie(cookie, user_id, NoFaults) \in {None, Ok(<<>>)}

\* validate_all_sessions(): the user ids of the valid sessions
validate_all_sessions(answers) ==
    LET sessions == load_sessions(FALSE)
        plaintext_cookie(u) == IF is_encrypted(sessions[u].cookie)
                               THEN decrypt_cookie(sessions[u].cookie, u, NoFaults).ok
                               ELSE sessions[u].cookie
    IN  {u \in DOMAIN sessions :
            /\ ~Undecryptable(sessions[u].cookie, u)
            /\ validate_session_cookie(plaintext_cookie(u), Ok(u), NoFaults,
                                       AnswerFor(answers[u], IdOf(u))).result # None}

\* get_expired_sessions_with_methods(): the user ids of the expired sessions
get_expired_sessions_with_methods(answers) ==
    LET sessions == load_sessions(FALSE)
    IN  {u \in DOMAIN sessions :
            validate_session_cookie(sessions[u].cookie, Ok(u), NoFaults,
                                    AnswerFor(answers[u], IdOf(u))).result = None}

\* the renewed cookie: steam_login() or browser_login()
RenewalCookies == {None, Ok(<<>>), Ok(<<98>>)}

\* the refresh treating every validated cookie as the selected account's
refresh_session_of_any_account(selected_user_id, choice, cookie, outcome, faults) ==
    LET saved_method == load_sessions(FALSE)[selected_user_id].login_method
        renewal_method == IF saved_method = "unknown" THEN choice ELSE saved_method
        renewal_user_data == validate_session_cookie(cookie.ok, None, NoFaults, outcome).result
        unchanged == [saved |-> FALSE, sessions_file |-> sessions_file, keyring |-> keyring]
    IN  IF saved_method = "unknown" /\ choice = "cancel" THEN unchanged
        ELSE IF cookie = None \/ cookie.ok = <<>> THEN unchanged
        ELSE IF renewal_user_data = None THEN unchanged
        ELSE LET r == save_session(selected_user_id, cookie.ok, "Acme", renewal_method,
                                   faults)
             IN  [saved |-> TRUE, sessions_file |-> r.sessions_file, keyring |-> r.keyring]

\* lines 1300-1376: the refresh of the selected session: whether save_session
\* was called, and the document and the credential store afterwards
refresh_session(selected_user_id, choice, cookie, outcome, faults) ==
    LET saved_method == load_sessions(FALSE)[selected_user_id].login_method
        renewal_method == IF saved_method = "unknown" THEN choice ELSE saved_method
        renewal_user_data == validate_session_cookie(cookie.ok, None, NoFaults, outcome).result
        unchanged == [saved |-> FALSE, sessions_file |-> sessions_file, keyring |-> keyring]
    IN  IF saved_method = "unknown" /\ choice = "cancel" THEN unchanged
        ELSE IF cookie = None \/ cookie.ok = <<>> THEN unchanged
        ELSE IF renewal_user_data = None THEN unchanged
        ELSE IF str_id(dict_get(renewal_user_data.ok, "id", JsonNull).ok) # selected_user_id
            THEN unchanged
        ELSE LET r == save_session(str_id(Item(renewal_user_data.ok, "id")), cookie.ok,
                                   "Acme", renewal_method, faults)
             IN  [saved |-> TRUE, sessions_file |-> r.sessions_file, keyring |-> r.keyring]

\* the answers to the renewed cookie: it belongs to user 1, to user 2, or
\* it is not accepted
RenewalAnswers ==
    {AnswerFor("live", 1), AnswerFor("live", 2), AnswerFor("expired", 1),
     AnswerFor("timeout", 1)}

InitSessions ==
    /\ KEYRING_AVAILABLE \in BOOLEAN
    /\ machine \in StoreMachines
    /\ keyring \in {{}, {<<account_name(<<49>>), <<97>>>>}}
    /\ \E data \in SessionDocuments : sessions_file = [valid |-> TRUE, data |-> data]
    /\ call = NotCalled
    /\ ret = NotCalled
    /\ pc = "sessions"
    /\ gcm = NotCalled
    /\ scan = NotCalled
    /\ check = NotCalled
    /\ launcher = NotCalled
    /\ \E answers \in [UserIds -> AnswerKinds] :
        flow = [op |-> "none", of |-> "none", at |-> "start", answers |-> answers,
                valid |-> {}, expired |-> {}, refreshes |-> 0, selected |-> None,
                cookie |-> None, outcome |-> AnswerFor("timeout", 1), saved |-> FALSE,
                before |-> None]

SessionsUnchanged ==
    UNCHANGED <<KEYRING_AVAILABLE, machine, call, ret, pc, gcm, scan, check, launcher>>

\* a session expires or comes back, the network goes away
EndpointChanges ==
    /\ flow.at = "expired"
    /\ \E u \in UserIds, kind \in AnswerKinds :
        /\ flow.answers[u] # kind
        /\ flow' = [flow EXCEPT !.answers[u] = kind]
    /\ UNCHANGED <<sessions_file, keyring>>
    /\ SessionsUnchanged

\* main, STEP 1: valid_sessions = validate_all_sessions()
ValidateAllSessions ==
    /\ flow.at = "start"
    /\ flow' = [flow EXCEPT !.op = "validate_all_sessions", !.at = "expired",
                            !.valid = validate_all_sessions(flow.answers),
                            !.selected = None, !.cookie = None,
                            !.outcome = AnswerFor("timeout", 1), !.saved = FALSE,
                            !.before = None]
    /\ UNCHANGED <<sessions_file, keyring>>
    /\ SessionsUnchanged

\* main: expired_sessions = get_expired_sessions_with_methods()
GetExpiredSessions ==
    /\ flow.at = "expired"
    /\ flow' = [flow EXCEPT !.op = "get_expired_sessions_with_methods",
                            !.at = "selector",
                            !.expired = get_expired_sessions_with_methods(flow.answers)]
    /\ UNCHANGED <<sessions_file, keyring>>
    /\ SessionsUnchanged

\* main: 'refresh_sessions' in the selector and the session picked; the
\* lists are then built again
RefreshSession ==
    /\ flow.at = "selector"
    /\ flow.refreshes < MaxRefreshes
    /\ \E selected_user_id \in flow.valid \cup flow.expired :
       \E choice \in IF sessions_file.data[selected_user_id].login_method = "unknown"
                     THEN DialogChoices ELSE {"steam"} :
       \E cookie \in IF choice = "cancel" THEN {None} ELSE RenewalCookies :
       \E outcome \in IF cookie \in {None, Ok(<<>>)} THEN {AnswerFor("timeout", 1)}
                      ELSE RenewalAnswers :
       \E faults \in {f \in ReachedFaults :
                        \/ outcome = AnswerFor("live", IdOf(selected_user_id))
                        \/ ~f.delete /\ ~f.set /\ ~f.read /\ f.write = "ok"} :
        \E r \in {refresh_session(selected_user_id, choice, cookie, outcome, faults)} :
            /\ sessions_file' = r.sessions_file
            /\ keyring' = r.keyring
            /\ flow' = [flow EXCEPT !.op = "refresh", !.at = "start",
                                    !.refreshes = @ + 1, !.valid = {}, !.expired = {},
                                    !.selected = Ok(selected_user_id), !.cookie = cookie,
                                    !.outcome = outcome, !.saved = r.saved,
                                    !.before = [sessions_file |-> sessions_file,
                                                keyring |-> keyring]]
    /\ SessionsUnchanged

NextSessions ==
    \/ EndpointChanges
    \/ ValidateAllSessions
    \/ GetExpiredSessions
    \/ RefreshSession

SpecSessions == InitSessions /\ [][NextSessions]_vars

-----------------------------------------------------------------------------
(* Claims about the session lists and the refresh *)

\* the endpoint named this user for the renewed cookie
AnsweredAs(outcome, user_id) ==
    /\ outcome.response
    /\ outcome.status_code = 200
    /\ outcome = AnswerFor("live", IdOf(user_id))

\* C25: a refresh changes the session document only when the renewed cookie
\* is there and the endpoint validated it as the selected user id's; the
\* record it then writes is the selected user id's and holds that cookie as
\* encrypt_cookie stored it; otherwise the document and the credential
\* store are left as they were.
C25_RefreshSavesValidated ==
    flow.op = "refresh"
        => LET selected == flow.selected.ok
               validated == /\ flow.cookie # None
                            /\ flow.cookie.ok # <<>>
                            /\ AnsweredAs(flow.outcome, selected)
           IN  /\ flow.saved <=> validated
               /\ ~validated => /\ sessions_file = flow.before.sessions_file
                                /\ keyring = flow.before.keyring
               /\ (validated /\ sessions_file.valid
                             /\ sessions_file # flow.before.sessions_file)
                      => /\ selected \in StoredUserIds(sessions_file)
                         /\ decrypt_cookie(sessions_file.data[selected].cookie,
                                           selected, NoFaults) = flow.cookie

\* a refresh saved the renewed cookie under the selected user id
C25_Witness ==
    /\ flow.op = "refresh"
    /\ flow.saved
    /\ sessions_file.valid
    /\ flow.selected.ok \in StoredUserIds(sessions_file)
    /\ sessions_file # flow.before.sessions_file
    /\ decrypt_cookie(sessions_file.data[flow.selected.ok].cookie, flow.selected.ok,
                      NoFaults) = flow.cookie

\* the selector is about to be shown with the two lists
ListsBuilt == flow.op = "get_expired_sessions_with_methods" /\ flow.at = "selector"

\* C26: a stored session whose credential cannot be decrypted is in neither
\* list.
C26_UndecryptableSkipped ==
    ListsBuilt
        => \A u \in StoredUserIds(sessions_file) :
              Undecryptable(sessions_file.data[u].cookie, u)
                  => u \notin flow.valid /\ u \notin flow.expired

\* C27: the two lists are disjoint, and every stored session with a
\* decryptable cookie is in one of them.
C27_ListsPartition ==
    ListsBuilt
        => /\ flow.valid \cap flow.expired = {}
           /\ \A u \in StoredUserIds(sessions_file) :
                 ~Undecryptable(sessions_file.data[u].cookie, u)
                     => u \in flow.valid \cup flow.expired

-----------------------------------------------------------------------------
(* RESTORE: do_restore of the restore dialog *)

\* 'userdata_backup_1700000000'
Str_userdata_backup == <<117, 115, 101, 114, 100, 97, 116, 97, 95, 98, 97, 99, 107, 117, 112, 95, 49, 55, 48, 48, 48, 48, 48, 48, 48, 48>>

RECURSIVE split(_, _)
\* text.split(sep) for a one-character sep: the parts of a member name
split(text, sep) ==
    LET at == {i \in 1..Len(text) : text[i] = sep}
    IN  IF at = {} THEN <<text>>
        ELSE LET i == Least(at)
             IN  <<SubSeq(text, 1, i - 1)>> \o split(From(text, i), sep)

\* the directory userdata_path.parent: the directories and the files below
\* it, by their paths relative to it
NoTree == [dirs |-> {}, files |-> {}]

\* the part of the tree at and below `root`, relative to `root`
under(fs, root) ==
    [dirs |-> {relative_to(d, root) : d \in {e \in fs.dirs : StartsWith(e, root)}},
     files |-> {<<relative_to(f[1], root), f[2]>> :
                    f \in {g \in fs.files : StartsWith(g[1], root)}}]

\* shutil.rmtree(path)
rmtree(fs, path) ==
    [dirs |-> {d \in fs.dirs : ~StartsWith(d, path)},
     files |-> {f \in fs.files : ~StartsWith(f[1], path)}]

\* shutil.copytree(src, dst): dst must not exist
copytree(fs, src, dst) ==
    IF dst \in fs.dirs THEN Raise("FileExistsError")
    ELSE Ok([dirs |-> fs.dirs \cup {dst \o d : d \in under(fs, src).dirs},
             files |-> fs.files \cup {<<dst \o f[1], f[2]>> : f \in under(fs, src).files}])

\* ZipFile.extract(member, path): the directories of the member's name are
\* made, the file is written over the one that is there
extract(fs, member) ==
    LET target == split(member.name, 47)
    IN  [dirs |-> fs.dirs \cup {Upto(target, n) : n \in 1..(Len(target) - 1)},
         files |-> {f \in fs.files : f[1] # target} \cup {<<target, member.data>>}]

RECURSIVE extract_all(_, _, _)
\* the first n of the members extracted in turn
extract_all(fs, members, n) ==
    IF n = 0 THEN fs ELSE extract(extract_all(fs, members, n - 1), members[n])

\* do_restore(): the status shown and the tree afterwards.  failing = 0 when
\* ZipFile() raises, k when the extraction of the k-th member raises, more
\* than the number of members when nothing raises
do_restore(selected, fs, failing) ==
    LET userdata_path == <<Str_userdata>>
        temp_backup_dir == <<Str_userdata_backup>>
        saved == IF userdata_path \in fs.dirs
                 THEN copytree(fs, userdata_path, temp_backup_dir) ELSE Ok(fs)
        files_to_extract ==
            SelectSeq(selected.ok.entries, LAMBDA m : m.name # Str_backup_metadata_json)
        done == Min(Max(failing - 1, 0), Len(files_to_extract))
        extracted == extract_all(saved.ok, files_to_extract, done)
        recovered == IF temp_backup_dir \in extracted.dirs
                     THEN rmtree(copytree(rmtree(extracted, userdata_path),
                                          temp_backup_dir, userdata_path).ok,
                                 temp_backup_dir)
                     ELSE extracted
    IN  IF selected = None THEN [status |-> "select a backup file first", fs |-> fs]
        ELSE IF IsRaise(saved) THEN [status |-> "error", fs |-> fs]
        ELSE IF failing <= Len(files_to_extract)
        THEN [status |-> "error", fs |-> recovered]
        ELSE [status |-> "complete", fs |-> rmtree(extracted, temp_backup_dir)]

\* the user-data directory before the restore: absent, or with some of the
\* files and the empty directory
RestoreTrees ==
    {NoTree}
        \cup {[dirs |-> {<<Str_userdata>>} \cup {<<Str_userdata>> \o d : d \in dirs}
                        \cup {<<Str_userdata>> \o parent(f) : f \in files},
               files |-> {<<<<Str_userdata>> \o f, <<1>>>> : f \in files}] :
                dirs \in SUBSET UserdataEmptyDirs, files \in SUBSET UserdataFiles}

\* the files offered to the restore dialog
RestoreFiles ==
    {NotZip,
     Zip(<<Member(Str_backup_metadata_json, BackupMetadata(Str_ShippingManagerCoPilot)),
           Member(Join(<<Str_userdata, Str_server_log>>, <<47>>), <<2>>)>>),
     Zip(<<Member(Str_backup_metadata_json, BackupMetadata(Str_ShippingManagerCoPilot)),
           Member(Join(<<Str_userdata, Str_server_log>>, <<47>>), <<2>>),
           Member(Join(<<Str_userdata, Str_settings, Str_settings_json>>, <<47>>),
                  <<2>>)>>),
     Zip(<<Member(Str_backup_metadata_json, BackupMetadata(Str_ShippingManagerCoPilot)),
           Member(Join(<<Str_userdata, Str_settings, Str_settings_json>>, <<47>>), <<2>>),
           Member(Join(<<Str_userdata, Str_readme_txt>>, <<47>>), <<2>>),
           Member(Join(<<Str_userdata, Str_server_log>>, <<47>>), <<2>>)>>)}

InitRestore ==
    /\ \E fs \in RestoreTrees :
        launcher = [op |-> "none", of |-> "none", fs |-> fs, before |-> fs,
                    selected |-> None, status |-> "none", failing |-> 0]
    /\ StartIdle

\* the Select Backup button: the file is kept when validate_backup accepts it
SelectBackupFile ==
    /\ launcher.op \in {"none", "select_backup_file"}
    /\ \E file \in RestoreFiles :
        \E r \in {validate_backup(file)} :
            launcher' = [launcher EXCEPT !.op = "select_backup_file",
                                         !.selected = IF r.valid THEN Ok(file) ELSE None,
                                         !.status = IF r.valid THEN "valid backup file"
                                                    ELSE "invalid backup"]
    /\ StartUnchanged

\* the Restore button
DoRestore ==
    /\ launcher.op \in {"none", "select_backup_file"}
    /\ \E failing \in 0..(IF launcher.selected = None THEN 0
                         ELSE Len(launcher.selected.ok.entries)) :
        \E r \in {do_restore(launcher.selected, launcher.fs, failing)} :
            launcher' = [launcher EXCEPT !.op = "do_restore", !.fs = r.fs,
                                         !.before = launcher.fs, !.status = r.status,
                                         !.failing = failing]
    /\ StartUnchanged

NextRestore ==
    \/ SelectBackupFile
    \/ DoRestore

SpecRestore == InitRestore /\ [][NextRestore]_vars

-----------------------------------------------------------------------------
(* Claims about the restore *)

\* C28: when the extraction fails during a restore, the user-data directory
\* is afterwards what it was before, whether or not it existed.
C28_RestoreRollsBack ==
    (launcher.op = "do_restore" /\ launcher.status = "error")
        => under(launcher.fs, <<Str_userdata>>) = under(launcher.before, <<Str_userdata>>)

-----------------------------------------------------------------------------
(* SETTINGS: the operations that write settings.json *)

\* '127.0.0.1'
Str_127_0_0_1 == <<49, 50, 55, 46, 48, 46, 48, 46, 49>>

\* '0.0.0.0'
Str_0_0_0_0 == <<48, 46, 48, 46, 48, 46, 48>>

DEFAULT_SETTINGS == [port |-> 12345, host |-> Str_127_0_0_1]

RECURSIVE digits_value(_)
digits_value(text) ==
    IF text = <<>> THEN 0
    ELSE 10 * digits_value(DropTail(text, 1)) + (text[Len(text)] - 48)

\* int(text) for text of digits; ValueError otherwise
int_text(text) ==
    IF text # <<>> /\ \A i \in 1..Len(text) : text[i] \in 48..57
    THEN Ok(digits_value(text)) ELSE Raise("ValueError")

\* dict.get(key, default) of a settings dict
settings_get(settings, key, default) ==
    IF key \in DOMAIN settings THEN settings[key] ELSE default

\* settings.json: missing, no JSON, or a JSON object
NoSettingsFile == [exists |-> FALSE]
BrokenSettingsFile == [exists |-> TRUE, json |-> FALSE]
SettingsFile(data) == [exists |-> TRUE, json |-> TRUE, data |-> data]

\* load_settings(): the file's object over the defaults; the defaults when
\* the file is missing or reading it raises
load_settings(file, fault) ==
    IF file.exists /\ ~fault /\ file.json THEN file.data @@ DEFAULT_SETTINGS
    ELSE DEFAULT_SETTINGS

\* the four fields written, from a settings dict
settings_to_save(settings) ==
    [port |-> settings_get(settings, "port", DEFAULT_SETTINGS.port),
     host |-> settings_get(settings, "host", DEFAULT_SETTINGS.host),
     debugMode |-> settings_get(settings, "debugMode", FALSE),
     logLevel |-> settings_get(settings, "logLevel", "info")]

\* open(SETTINGS_FILE, 'w') and json.dump: the file afterwards
write_settings(file, settings, write) ==
    IF write = "open_fails" THEN file
    ELSE IF write = "dump_fails" THEN BrokenSettingsFile
    ELSE SettingsFile(settings_to_save(settings))

\* save_settings(settings): True when written, and the file afterwards
save_settings(file, settings, write) ==
    [ok |-> write = "ok", file |-> write_settings(file, settings, write)]

\* save_and_restart(): the dialog's port and host texts
save_and_restart(file, port_var, host_var, fault, write) ==
    LET port == int_text(port_var)
        host == strip(host_var)
        current_settings == load_settings(file, fault)
        new_settings == [port |-> port.ok, host |-> host,
                         debugMode |-> settings_get(current_settings, "debugMode", FALSE),
                         logLevel |-> settings_get(current_settings, "logLevel", "info")]
        saved == save_settings(file, new_settings, write)
    IN  IF IsRaise(port) \/ port.ok < 1 \/ port.ok > 65535 \/ host = <<>>
        THEN [status |-> "invalid input", file |-> file, restart |-> None]
        ELSE IF ~saved.ok
        THEN [status |-> "failed to save", file |-> saved.file, restart |-> None]
        ELSE [status |-> "saved", file |-> saved.file, restart |-> Ok(new_settings)]

\* on_toggle_debug_mode(): the file and the settings start_server is called
\* with
on_toggle_debug_mode(file, fault, write) ==
    LET settings == load_settings(file, fault)
        debugMode == ~settings_get(settings, "debugMode", FALSE)
        toggled == [debugMode |-> debugMode,
                    logLevel |-> IF debugMode THEN "debug" ELSE "info"] @@ settings
        saved == save_settings(file, toggled, write)
    IN  IF ~saved.ok
        THEN [status |-> "failed to save", file |-> saved.file, restart |-> None]
        ELSE [status |-> "saved", file |-> saved.file, restart |-> Ok(toggled)]

\* the settings files found at the start: none, one that is no JSON, one of
\* port and host only, and files of the four keys
SettingsFiles ==
    {NoSettingsFile, BrokenSettingsFile,
     SettingsFile([port |-> 8080, host |-> Str_0_0_0_0])}
        \cup {SettingsFile([port |-> 8080, host |-> Str_0_0_0_0, debugMode |-> d,
                            logLevel |-> l]) :
                d \in BOOLEAN, l \in {"info", "debug"}}

\* the texts of the port field: '8080', '12345', '0', '65536', 'abc', ''
PortTexts ==
    {<<56, 48, 56, 48>>, <<49, 50, 51, 52, 53>>, <<48>>, <<54, 53, 53, 51, 54>>, <<97, 98, 99>>, <<>>}

\* the texts of the host field: '0.0.0.0', ' 127.0.0.1 ', ' '
HostTexts == {Str_0_0_0_0, <<32>> \o Str_127_0_0_1 \o <<32>>, <<32>>}

InitSettings ==
    /\ \E file \in SettingsFiles :
        launcher = [op |-> "none", of |-> "none", file |-> file, before |-> file,
                    status |-> "none", restart |-> None, port |-> None, host |-> <<>>,
                    fault |-> FALSE]
    /\ StartIdle

\* the faults of a read: none when there is no file to read
ReadFaults == IF launcher.file.exists THEN BOOLEAN ELSE {FALSE}

\* the Save & Restart button of the settings dialog
SaveAndRestartSettings ==
    /\ launcher.restart = None
    /\ \E port_var \in PortTexts, host_var \in HostTexts, fault \in ReadFaults,
          write \in WriteOutcomes :
        \E r \in {save_and_restart(launcher.file, port_var, host_var, fault, write)} :
            launcher' = [launcher EXCEPT !.op = "save_and_restart", !.file = r.file,
                                         !.before = launcher.file, !.status = r.status,
                                         !.restart = r.restart,
                                         !.port = int_text(port_var),
                                         !.host = strip(host_var), !.fault = fault]
    /\ StartUnchanged

\* the Debug Mode item of the tray menu
ToggleDebugMode ==
    /\ launcher.restart = None
    /\ \E fault \in ReadFaults, write \in WriteOutcomes :
        \E r \in {on_toggle_debug_mode(launcher.file, fault, write)} :
            launcher' = [launcher EXCEPT !.op = "on_toggle_debug_mode", !.file = r.file,
                                         !.before = launcher.file, !.status = r.status,
                                         !.restart = r.restart, !.port = None,
                                         !.host = <<>>, !.fault = fault]
    /\ StartUnchanged

\* the Restart item of the tray menu, and the start of the launcher:
\* load_settings() for start_server
RestartSettings ==
    /\ launcher.restart = None
    /\ \E fault \in ReadFaults :
        launcher' = [launcher EXCEPT !.op = "on_restart", !.before = launcher.file,
                                     !.status = "loaded",
                                     !.restart = Ok(load_settings(launcher.file, fault)),
                                     !.port = None, !.host = <<>>, !.fault = fault]
    /\ StartUnchanged

\* start_server(settings) writes the settings it was called with
StartServerWrites ==
    /\ launcher.restart # None
    /\ \E write \in WriteOutcomes :
        launcher' = [launcher EXCEPT !.op = "start_server",
                                     !.file = write_settings(launcher.file,
                                                             launcher.restart.ok, write),
                                     !.before = launcher.file,
                                     !.status = IF write = "ok" THEN "saved"
                                                ELSE "failed to save",
                                     !.restart = None, !.port = None, !.host = <<>>,
                                     !.fault = FALSE]
    /\ StartUnchanged

NextSettings ==
    \/ SaveAndRestartSettings
    \/ ToggleDebugMode
    \/ RestartSettings
    \/ StartServerWrites

SpecSettings == InitSettings /\ [][NextSettings]_vars

-----------------------------------------------------------------------------
(* Claims about the settings *)

\* a field of the settings as they were: what the file holds, the value
\* taken for a field that is not there otherwise
FieldBefore(key) ==
    settings_get(load_settings(launcher.before, FALSE), key,
                 IF key = "debugMode" THEN FALSE ELSE "info")

WrittenWell ==
    /\ launcher.file.exists
    /\ launcher.file.json
    /\ DOMAIN launcher.file.data = {"port", "host", "debugMode", "logLevel"}
    /\ launcher.file.data.logLevel = "debug" <=> launcher.file.data.debugMode = TRUE

\* C29: a settings file written by Save & Restart holds the new port and
\* host and debugMode and logLevel as they were; one written by the Debug
\* Mode toggle holds debugMode flipped, logLevel 'debug' exactly when
\* debugMode, and port and host as they were; every file written has the
\* four keys with logLevel 'debug' exactly when debugMode.
C29_SettingsFrame ==
    (launcher.op \in {"save_and_restart", "on_toggle_debug_mode", "start_server"}
            /\ launcher.status = "saved")
        => /\ WrittenWell
           /\ launcher.op = "save_and_restart"
                => /\ launcher.file.data.port = launcher.port.ok
                   /\ launcher.file.data.host = launcher.host
                   /\ launcher.file.data.debugMode = FieldBefore("debugMode")
                   /\ launcher.file.data.logLevel = FieldBefore("logLevel")
           /\ launcher.op = "on_toggle_debug_mode"
                => /\ launcher.file.data.debugMode = ~FieldBefore("debugMode")
                   /\ launcher.file.data.port = FieldBefore("port")
                   /\ launcher.file.data.host = FieldBefore("host")

=============================================================================
